---------------------------- MODULE Spec2Model ----------------------------
(***************************************************************************)
(* A model of the value-betting core of keiba-20250420:                    *)
(*   BankrollManager (src/bankroll_manager.py),                            *)
(*   BettingAnalyzer (src/betting_analyzer.py),                            *)
(*   BetTypeAnalyzer (src/bet_type_analyzer.py),                           *)
(*   ProbabilityModels (src/probability_models.py), with its live updates, *)
(*   RaceSelector (src/race_selector.py),                                  *)
(*   RaceDataScheduler.start / stop (src/scheduler.py).                    *)
(*                                                                         *)
(* Numbers.  Python computes with floats; the model computes with exact    *)
(* rationals kept as integers in fixed units:                              *)
(*   money            yen (integers, as in the code)                       *)
(*   odds             tenths          (40  is decimal odds 4.0)            *)
(*   probability      percent         (55  is 0.55)                        *)
(*   confidence       tenths          (8   is 0.8)                         *)
(*   max risk         percent         (5   is 0.05)                        *)
(*   expected value   thousandths     (1375 is 1.375), or a pair <<n, d>>  *)
(*                    for the quotient n / d with d > 0                    *)
(* Every comparison of two quotients is done by cross multiplication, so   *)
(* no rounding happens except where the code itself rounds (math.ceil).    *)
(***************************************************************************)
EXTENDS Integers, Sequences, FiniteSets, TLC

VARIABLES
    under_test,            \* which object this run constructs and calls
    \* BankrollManager
    initial_bankroll,      \* self.initial_bankroll            (yen)
    current_bankroll,      \* self.current_bankroll            (yen)
    max_risk_per_race,     \* self.max_risk_per_race           (percent)
    bet_history,           \* self.bet_history                 (sequence of bet records)
    performance_metrics,   \* self.performance_metrics         (record of quotients)
    ret,                   \* the last call on the manager and what it returned
    \* BettingAnalyzer
    ba_input,              \* what the analyzer was constructed from (scores, odds tables)
    win_probabilities,     \* self.win_probabilities
    place_probabilities,   \* self.place_probabilities
    expected_values,       \* self.expected_values
    recommendations,       \* self.recommendations
    ba_calls,              \* how often analyze() has been called
    ba_raised,             \* whether the last analyze() raised instead of returning
    \* BetTypeAnalyzer
    bta_input,             \* race_data odds and the probabilities passed to __init__
    bta_expected_values,   \* self.expected_values
    bta_recommendations,   \* self.recommendations
    bta_calls,             \* how often the analyzer's method has been called
    \* ProbabilityModels
    pm_race_data,          \* self.race_data  (horses, odds table, pace scenario)
    pm_factor_analysis,    \* self.factor_analysis
    market_priors,         \* self.market_priors
    pm_probabilities,      \* self.win_probabilities ... self.trio_probabilities
    simulation_results,    \* self.simulation_results
    pm_ret,                \* the last call on the models and what it returned
    pm_calls,              \* how often the probabilities have been estimated
    \* ProbabilityModels, live updates
    previous_odds_data,        \* self.previous_odds_data
    previous_track_condition,  \* self.previous_track_condition
    previous_weather_data,     \* self.previous_weather_data
    last_full_recalculation_time,  \* self.last_full_recalculation_time (minutes)
    clock,                     \* time.time()                          (minutes)
    cached_probabilities,      \* self.cached_probabilities
    pm_updates,                \* how often update_race_data has been called
    cached_after,              \* (history) the update after which the cached set was computed
    recalculated_odds,         \* (history) the win odds in force at the last full recalculation
    triggered_at,              \* (history) the last update that found a recalculation needed
    \* RaceSelector
    race_database,         \* self.race_database  (the race ids it holds)
    race_scores,           \* self.race_scores
    rs_input,              \* the races passed to score_races
    rs_ret,                \* the last call on the selector and what it returned
    \* RaceDataScheduler
    running,               \* self.running
    thread,                \* self.thread  (0: None, else the number of the thread)
    loops,                 \* where each scheduler thread stands in run_scheduler
    caller,                \* where the thread calling start() and stop() stands
    asked_to_stop,         \* (history) the threads a stop() has asked to stop
    resumed                \* (history) the threads that ran jobs after being asked to stop

bankroll_vars == <<initial_bankroll, current_bankroll, max_risk_per_race,
                   bet_history, performance_metrics, ret>>
ba_vars == <<ba_input, win_probabilities, place_probabilities, expected_values,
             recommendations, ba_calls, ba_raised>>
bta_vars == <<bta_input, bta_expected_values, bta_recommendations, bta_calls>>
pm_vars == <<pm_race_data, pm_factor_analysis, market_priors, pm_probabilities,
             simulation_results, pm_ret, pm_calls>>
live_vars == <<previous_odds_data, previous_track_condition, previous_weather_data,
               last_full_recalculation_time, clock, cached_probabilities,
               pm_updates, cached_after, recalculated_odds, triggered_at>>
rs_vars == <<race_database, race_scores, rs_input, rs_ret>>
sch_vars == <<running, thread, loops, caller, asked_to_stop, resumed>>
\* the objects added last: live updates, race selector, scheduler
rest_vars == <<live_vars, rs_vars, sch_vars>>
vars == <<under_test, bankroll_vars, ba_vars, bta_vars, pm_vars, rest_vars>>

-----------------------------------------------------------------------------
(* Arithmetic helpers                                                      *)

\* math.ceil(n / d) for an integer n and d > 0
CeilDiv(n, d) == -((-n) \div d)

\* Python's max / min of two numbers
Max2(a, b) == IF a >= b THEN a ELSE b
Min2(a, b) == IF a <= b THEN a ELSE b

\* Python's sum() over a sequence of integers
RECURSIVE SumSeq(_)
SumSeq(s) == IF s = <<>> THEN 0 ELSE Head(s) + SumSeq(Tail(s))

\* A quotient n / d in lowest terms (d > 0 stays positive; d = 0 is kept).
\* The model's integers are 32 bits wide, Python's floats are not: reducing
\* keeps the cross products of the comparisons small.
Abs(n) == IF n < 0 THEN -n ELSE n
RECURSIVE GCD(_, _)
GCD(a, b) == IF b = 0 THEN a ELSE GCD(b, a % b)
Q(n, d) ==
    IF d = 0 THEN <<n, 0>>
    ELSE LET g == GCD(Abs(n), Abs(d)) IN <<n \div g, d \div g>>

\* a > b, a >= b and a = b for quotients with positive denominators, by
\* cross multiplication over the least common denominator
CommonDen(a, b) == IF a[2] = 0 \/ b[2] = 0 THEN 1 ELSE GCD(a[2], b[2])
QGt(a, b) == a[1] * (b[2] \div CommonDen(a, b)) > b[1] * (a[2] \div CommonDen(a, b))
QGe(a, b) == a[1] * (b[2] \div CommonDen(a, b)) >= b[1] * (a[2] \div CommonDen(a, b))
QEq(a, b) == a[1] * (b[2] \div CommonDen(a, b)) = b[1] * (a[2] \div CommonDen(a, b))

\* a + b, a * b and a / b for quotients (b > 0 in a / b), in lowest terms
QAdd(a, b) ==
    LET g == GCD(a[2], b[2])
    IN Q(a[1] * (b[2] \div g) + b[1] * (a[2] \div g), (a[2] \div g) * b[2])
QMul(a, b) ==
    LET g == Max2(1, GCD(Abs(a[1]), b[2]))
        h == Max2(1, GCD(Abs(b[1]), a[2]))
    IN Q((a[1] \div g) * (b[1] \div h), (a[2] \div h) * (b[2] \div g))
QDiv(a, b) == QMul(a, <<b[2], b[1]>>)
\* min(a, b) for quotients
QMin(a, b) == IF QGt(a, b) THEN b ELSE a

\* The value a component's variables hold while another component is checked.
Idle == "idle"

-----------------------------------------------------------------------------
(* BankrollManager                                      bankroll_manager.py *)

\* Bounds of the ledger model: the number of bets recorded in a run that
\* sizes stakes, in a run that exercises every method of the manager, and in
\* a run long enough for recommend_bankroll_strategy to look at the history.
MaxBets == 2
MaxDrawdownBets == 3
MaxStrategyBets == 10

\* The runs that construct a BankrollManager.
SizingRun == "BankrollManager"
DrawdownRun == "BankrollManager.adjust_for_drawdown_protection"
StrategyRun == "BankrollManager.recommend_bankroll_strategy"
BankrollRuns == {SizingRun, DrawdownRun, StrategyRun}
MaxBetsOf(run) ==
    CASE run = DrawdownRun -> MaxDrawdownBets
      [] run = StrategyRun -> MaxStrategyBets
      [] OTHER -> MaxBets

\* Minimum bet returned by calculate_bet_size, and its rounding increment.
MinBet == 100

\* Inputs the caller may pass.  Nothing in record_bet ties the payout to the
\* result, so every combination is drawn (a "lose" with a payout included).
InitialBankrolls == {100000}
RiskPercents == {5}
BetTypes == {"tan", "fuku"}
Amounts == {100, 55000}
Payouts == {0, 80000}
BetResults == {"win", "lose"}

\* The bets of the longer runs: a stake that is lost, or won at odds 2.0.
\* Losses of 10000 and 30000 on a bankroll of 100000 put the drawdown below,
\* at and above 20% and 30%, and past 57.5% where the reduction stops.
DrawdownAmounts == {10000, 30000}
StrategyAmounts == {10000}
SettledBets(types, amounts) ==
    {<<t, a, "lose", 0>> : t \in types, a \in amounts}
        \cup {<<t, a, "win", 2 * a>> : t \in types, a \in amounts}

\* record_bet's arguments <<bet_type, amount, result, payout>> in each run
BetInputs(run) ==
    CASE run = DrawdownRun -> SettledBets(BetTypes, DrawdownAmounts)
      [] run = StrategyRun -> SettledBets({"tan"}, StrategyAmounts)
      [] OTHER -> BetTypes \X Amounts \X BetResults \X Payouts

\* Arguments of calculate_bet_size: expected value (thousandths), odds
\* (tenths), probability (percent), confidence (tenths).  The expected value
\* is a parameter of its own: the code never checks it against probability
\* times odds.
SizingOdds == {10, 20, 40}
SizingProbs == {0, 30, 55, 90}
SizingConfs == {8, 10}
SizingEVs(odds, p) == {odds * p, 1100}

\* calculate_bet_size's arguments <<expected_value, odds, probability,
\* confidence>> in each run
SizingInputs(run) ==
    IF run = DrawdownRun
    THEN {<<2200, 40, 55, 8>>, <<1000, 10, 0, 10>>}
    ELSE UNION {UNION {{<<ev, odds, p, conf>> : ev \in SizingEVs(odds, p)} :
                          conf \in SizingConfs} :
                   odds \in SizingOdds, p \in SizingProbs}

\* A quotient n / d is the pair <<n, d>>; float('inf') is <<1, 0>>.
Zero == <<0, 1>>
Inf == <<1, 0>>

\* __init__: performance_metrics as constructed
InitialMetrics ==
    [roi |-> Zero, hit_rate |-> Zero, drawdown |-> Zero,
     max_drawdown |-> Zero, profit_factor |-> Zero]

\* What `ret` holds when the last call returned None (or before any call).
NoCall(op) ==
    [op |-> op, expected_value |-> 0, odds |-> 0, probability |-> 0,
     confidence |-> 0, bet_amount |-> 0, raised |-> FALSE, value |-> 0]

\* record_bet, line 132: the "profit" field of the new record
BetProfit(amount, result, payout) ==
    IF result = "win" THEN payout - amount ELSE -amount

\* record_bet, lines 136-139: the bankroll after the bet
BankrollAfter_PayoutOnly(bankroll, amount, result, payout) ==
    IF result = "win" THEN bankroll + payout ELSE bankroll - amount

BankrollAfter(bankroll, amount, result, payout) ==
    IF result = "win" THEN bankroll + (payout - amount) ELSE bankroll - amount

\* record_bet, lines 124-134 and 141: the record appended to bet_history.
\* race_id, horses and odds are stored verbatim and never read again; they
\* are left out of the record.
BetRecord(bankroll, bet_type, amount, result, payout) ==
    [bet_type |-> bet_type, amount |-> amount, result |-> result,
     payout |-> payout, profit |-> BetProfit(amount, result, payout),
     bankroll_before |-> bankroll,
     bankroll_after |-> BankrollAfter(bankroll, amount, result, payout)]

\* the column of one field of the history, as a sequence of integers
Amounts_of(h) == [i \in 1..Len(h) |-> h[i].amount]
Payouts_of(h) == [i \in 1..Len(h) |-> h[i].payout]
Profits_of(h) == [i \in 1..Len(h) |-> h[i].profit]

\* _update_performance_metrics: hit_rate, roi and profit_factor are
\* recomputed from the history; drawdown and max_drawdown are not touched.
UpdatedMetrics(metrics, h) ==
    IF h = <<>> THEN metrics
    ELSE LET total_bets == Len(h)
             winning_bets == Cardinality({i \in 1..Len(h) : h[i].result = "win"})
             total_stakes == SumSeq(Amounts_of(h))
             total_returns == SumSeq(Payouts_of(h))
             winning_amount ==
                 SumSeq([i \in 1..Len(h) |->
                            IF h[i].profit > 0 THEN h[i].profit ELSE 0])
             losing_amount ==
                 SumSeq([i \in 1..Len(h) |->
                            IF h[i].profit < 0 THEN -h[i].profit ELSE 0])
         IN [metrics EXCEPT
                !.hit_rate = <<winning_bets, total_bets>>,
                !.roi = IF total_stakes > 0
                        THEN <<total_returns - total_stakes, total_stakes>>
                        ELSE Zero,
                !.profit_factor = IF losing_amount > 0
                                  THEN <<winning_amount, losing_amount>>
                                  ELSE Inf]

\* record_bet(race_id, bet_type, horses, amount, odds, result, payout)
record_bet ==
    /\ under_test \in BankrollRuns
    /\ Len(bet_history) < MaxBetsOf(under_test)
    /\ \E bet \in BetInputs(under_test) :
         LET bet_type == bet[1]
             amount == bet[2]
             result == bet[3]
             payout == bet[4]
             rec == BetRecord(current_bankroll, bet_type, amount, result, payout)
             h == Append(bet_history, rec)
         IN /\ current_bankroll' =
                   BankrollAfter(current_bankroll, amount, result, payout)
            /\ bet_history' = h
            /\ performance_metrics' = UpdatedMetrics(performance_metrics, h)
    /\ ret' = NoCall("record_bet")
    /\ UNCHANGED <<initial_bankroll, max_risk_per_race>>

\* calculate_bet_size, line 61: the inputs that get the minimum bet
InvalidKellyInputs_NoOddsCheck(expected_value, odds, probability) ==
    expected_value <= 1000 \/ probability <= 0

InvalidKellyInputs(expected_value, odds, probability) ==
    expected_value <= 1000 \/ odds <= 10 \/ probability <= 0

\* calculate_bet_size, lines 65-66: the Kelly fraction
\*   (net_odds * p - (1 - p)) / net_odds,   net_odds = odds - 1
\* as the quotient <<kn, kd>>; kd = 0 is Python's ZeroDivisionError.
KellyFraction_TimesNet(odds, probability) ==
    LET net_odds == odds - 10
    IN Q(10 * probability - (100 - probability) * net_odds, 1000)

KellyFraction(odds, probability) ==
    LET net_odds == odds - 10
    IN Q(net_odds * probability - 10 * (100 - probability), 100 * net_odds)

\* calculate_bet_size, lines 68-72: kelly_fraction * confidence / 4, capped
\* at max_risk_per_race
ConservativeKelly(kelly, confidence, risk) ==
    LET cn == kelly[1] * confidence
        cd == kelly[2] * 40
    IN IF cn * 100 > risk * cd THEN Q(risk, 100) ELSE Q(cn, cd)

\* calculate_bet_size, lines 74-76:
\*   max(100, math.ceil(bankroll * conservative_kelly / 100) * 100)
RoundedAmount_NoMinimum(bankroll, fraction) ==
    CeilDiv(bankroll * fraction[1], fraction[2] * 100) * 100

RoundedAmount(bankroll, fraction) ==
    Max2(MinBet, CeilDiv(bankroll * fraction[1], fraction[2] * 100) * 100)

\* calculate_bet_size, lines 61-81, as a function of the ledger and the
\* arguments.  bet_type is only logged.  The result is [raised, value]:
\* raised is TRUE when Python raises ZeroDivisionError at line 66.
calculate_bet_size(bankroll, risk, expected_value, odds, probability, confidence) ==
    IF InvalidKellyInputs(expected_value, odds, probability)
    THEN [raised |-> FALSE, value |-> MinBet]
    ELSE LET kelly == KellyFraction(odds, probability)
         IN IF kelly[2] = 0
            THEN [raised |-> TRUE, value |-> 0]
            ELSE [raised |-> FALSE,
                  value |-> RoundedAmount(
                                bankroll,
                                ConservativeKelly(kelly, confidence, risk))]

\* a call of calculate_bet_size on the manager
call_calculate_bet_size ==
    /\ under_test \in {SizingRun, DrawdownRun}
    /\ \E args \in SizingInputs(under_test) :
         LET ev == args[1]
             odds == args[2]
             p == args[3]
             conf == args[4]
             r == calculate_bet_size(current_bankroll, max_risk_per_race,
                                     ev, odds, p, conf)
         IN ret' = [NoCall("calculate_bet_size") EXCEPT
                       !.expected_value = ev, !.odds = odds,
                       !.probability = p, !.confidence = conf,
                       !.raised = r.raised, !.value = r.value]
    /\ UNCHANGED <<initial_bankroll, current_bankroll, max_risk_per_race,
                   bet_history, performance_metrics>>

\* adjust_for_drawdown_protection, line 93:
\*   drawdown = 1.0 - current_bankroll / initial_bankroll
Drawdown(initial, bankroll) == Q(initial - bankroll, initial)

\* adjust_for_drawdown_protection, lines 94-97: the two metrics it writes
DrawdownMetrics_Rebuilt(metrics, drawdown) ==
    [InitialMetrics EXCEPT
        !.drawdown = drawdown,
        !.max_drawdown = IF QGt(drawdown, metrics.max_drawdown)
                         THEN drawdown ELSE metrics.max_drawdown]

DrawdownMetrics(metrics, drawdown) ==
    [metrics EXCEPT
        !.drawdown = drawdown,
        !.max_drawdown = IF QGt(drawdown, metrics.max_drawdown)
                         THEN drawdown ELSE metrics.max_drawdown]

\* adjust_for_drawdown_protection, lines 100-101:
\*   max(0.25, 1.0 - (drawdown - 0.2) * 2)
ReductionFactor_NoFloor(drawdown) ==
    Q(7 * drawdown[2] - 10 * drawdown[1], 5 * drawdown[2])

ReductionFactor(drawdown) ==
    LET linear == Q(7 * drawdown[2] - 10 * drawdown[1], 5 * drawdown[2])
    IN IF QGe(<<1, 4>>, linear) THEN <<1, 4>> ELSE linear

\* adjust_for_drawdown_protection, lines 99-108: the stake returned
AdjustedAmount(bet_amount, drawdown) ==
    IF QGt(drawdown, <<1, 5>>)
    THEN LET f == ReductionFactor(drawdown)
         IN CeilDiv(bet_amount * f[1], f[2] * 100) * 100
    ELSE bet_amount

\* Stakes passed to adjust_for_drawdown_protection ("initially calculated
\* bet amount"): every stake the program computes is a multiple of 100, from
\* calculate_bet_size and from the analyzers alike.
Stakes == {100, 300, 1000}

\* adjust_for_drawdown_protection(bet_amount)
adjust_for_drawdown_protection ==
    /\ under_test \in {DrawdownRun, StrategyRun}
    /\ \E bet_amount \in Stakes :
         LET drawdown == Drawdown(initial_bankroll, current_bankroll)
         IN /\ performance_metrics' = DrawdownMetrics(performance_metrics, drawdown)
            /\ ret' = [NoCall("adjust_for_drawdown_protection") EXCEPT
                          !.bet_amount = bet_amount,
                          !.value = AdjustedAmount(bet_amount, drawdown)]
    /\ UNCHANGED <<initial_bankroll, current_bankroll, max_risk_per_race,
                   bet_history>>

\* _get_bet_type_breakdown: for every bet type of the history its count,
\* wins, hit_rate, roi and profit
BetTypeBreakdown(h) ==
    [t \in {h[i].bet_type : i \in 1..Len(h)} |->
        LET idx == {i \in 1..Len(h) : h[i].bet_type = t}
            total_bets == Cardinality(idx)
            winning_bets == Cardinality({i \in idx : h[i].result = "win"})
            total_stakes ==
                SumSeq([i \in 1..Len(h) |-> IF i \in idx THEN h[i].amount ELSE 0])
            total_returns ==
                SumSeq([i \in 1..Len(h) |-> IF i \in idx THEN h[i].payout ELSE 0])
        IN [count |-> total_bets,
            wins |-> winning_bets,
            hit_rate |-> Q(winning_bets, total_bets),
            roi |-> IF total_stakes > 0
                    THEN Q(total_returns - total_stakes, total_stakes)
                    ELSE Zero,
            profit |-> total_returns - total_stakes]]

\* get_performance_report, line 191: the last ten bets
RECENT_BETS == 10
RecentBets(h) ==
    IF Len(h) > RECENT_BETS THEN SubSeq(h, Len(h) - RECENT_BETS + 1, Len(h)) ELSE h

\* get_performance_report, lines 181-194
PerformanceReport(initial, bankroll, metrics, h) ==
    [initial_bankroll |-> initial,
     current_bankroll |-> bankroll,
     profit_loss |-> bankroll - initial,
     roi |-> metrics.roi,
     hit_rate |-> metrics.hit_rate,
     max_drawdown |-> metrics.max_drawdown,
     profit_factor |-> metrics.profit_factor,
     total_bets |-> Len(h),
     bet_type_breakdown |-> BetTypeBreakdown(h),
     recent_bets |-> RecentBets(h)]

\* get_performance_report()
get_performance_report ==
    /\ under_test = DrawdownRun
    /\ ret' = [NoCall("get_performance_report") EXCEPT
                  !.value = PerformanceReport(initial_bankroll, current_bankroll,
                                              performance_metrics, bet_history)]
    /\ UNCHANGED <<initial_bankroll, current_bankroll, max_risk_per_race,
                   bet_history, performance_metrics>>

\* recommend_bankroll_strategy, line 238: the history it needs
MIN_HISTORY == 10
\* recommend_bankroll_strategy, lines 253 and 257
MIN_TYPE_BETS == 5
MAX_FOCUS == 3

\* recommend_bankroll_strategy, lines 242-249: risk_adjustment, read from the
\* stored metrics
RiskAdjustment(metrics) ==
    LET current_drawdown == metrics.drawdown
    IN IF QGt(current_drawdown, <<3, 10>>) THEN "decrease"
       ELSE IF QGt(<<1, 10>>, current_drawdown) /\ QGt(metrics.roi, <<5, 100>>)
            THEN "increase"
            ELSE "None"

\* recommend_bankroll_strategy, lines 251-257: the orders in which the
\* profitable bet types can come out.  The breakdown is built by iterating
\* over a set of strings, whose order Python does not fix, and the sort by
\* roi is stable: types of equal roi come out in either order.
FocusOrders(h) ==
    LET breakdown == BetTypeBreakdown(h)
        profitable == {t \in DOMAIN breakdown :
                          /\ QGt(breakdown[t].roi, <<5, 100>>)
                          /\ breakdown[t].count >= MIN_TYPE_BETS}
        n == Cardinality(profitable)
        sorted == {f \in [1..n -> profitable] :
                      /\ \A i, j \in 1..n : i # j => f[i] # f[j]
                      /\ \A i, j \in 1..n :
                            i < j => QGe(breakdown[f[i]].roi, breakdown[f[j]].roi)}
    IN {SubSeq(f, 1, Min2(n, MAX_FOCUS)) : f \in sorted}

\* recommend_bankroll_strategy, lines 231-260.  The explanation is kept as
\* the sequence of sentences appended to it.
BankrollStrategy(metrics, h, focus) ==
    IF Len(h) < MIN_HISTORY
    THEN [risk_adjustment |-> "None", bet_type_focus |-> <<>>,
          recovery_mode |-> FALSE, explanation |-> <<"insufficient history">>]
    ELSE LET risk == RiskAdjustment(metrics)
         IN [risk_adjustment |-> risk,
             bet_type_focus |-> focus,
             recovery_mode |-> (risk = "decrease"),
             explanation |->
                 (IF risk = "decrease" THEN <<"significant drawdown">>
                  ELSE IF risk = "increase" THEN <<"low drawdown">> ELSE <<>>)
                 \o (IF focus # <<>> THEN <<"focus">> ELSE <<>>)]

\* recommend_bankroll_strategy()
recommend_bankroll_strategy ==
    /\ under_test \in {DrawdownRun, StrategyRun}
    /\ \E focus \in FocusOrders(bet_history) :
         ret' = [NoCall("recommend_bankroll_strategy") EXCEPT
                    !.value = BankrollStrategy(performance_metrics,
                                               bet_history, focus)]
    /\ UNCHANGED <<initial_bankroll, current_bankroll, max_risk_per_race,
                   bet_history, performance_metrics>>

\* BankrollManager(initial_bankroll, max_risk_per_race)
InitBankroll ==
    /\ initial_bankroll \in InitialBankrolls
    /\ current_bankroll = initial_bankroll
    /\ max_risk_per_race \in RiskPercents
    /\ bet_history = <<>>
    /\ performance_metrics = InitialMetrics
    /\ ret = NoCall("__init__")

IdleBankroll ==
    /\ initial_bankroll = 0
    /\ current_bankroll = 0
    /\ max_risk_per_race = 0
    /\ bet_history = <<>>
    /\ performance_metrics = InitialMetrics
    /\ ret = NoCall(Idle)

-----------------------------------------------------------------------------
(* Value-bet thresholds         betting_analyzer.py, bet_type_analyzer.py *)

\* MIN_EXPECTED_VALUE = 1.1, in tenths
MIN_EXPECTED_VALUE == 11

\* BREAKEVEN_THRESHOLD, in hundredths
AllBetTypes == {"tan", "fuku", "umaren", "umatan", "wide", "sanrentan", "sanrenpuku"}
BREAKEVEN_THRESHOLD ==
    [t \in AllBetTypes |->
        CASE t \in {"tan", "fuku"} -> 125
          [] t \in {"umaren", "umatan", "wide"} -> 129
          [] OTHER -> 133]

\* BREAKEVEN_THRESHOLD[bet_type] * MIN_EXPECTED_VALUE, as a quotient
Threshold(bet_type) == Q(BREAKEVEN_THRESHOLD[bet_type] * MIN_EXPECTED_VALUE, 1000)

\* A Python dict is a sequence of [k, v] entries in insertion order.
DictHas(d, k) == \E i \in 1..Len(d) : d[i].k = k
DictGet(d, k) == d[CHOOSE i \in 1..Len(d) : d[i].k = k].v
DictSet(d, k, v) ==
    IF DictHas(d, k)
    THEN [i \in 1..Len(d) |-> IF d[i].k = k THEN [k |-> k, v |-> v] ELSE d[i]]
    ELSE Append(d, [k |-> k, v |-> v])

\* The loop "best = 0; for key, ev in evs.items(): if ev > best and
\* ev > threshold: best, best_key = ev, key" of both analyzers; the result
\* is [found, key, ev].
Qualifies_AtThreshold(ev, best_ev, threshold) ==
    QGt(ev, best_ev) /\ QGe(ev, threshold)

\* "ev > best_ev and ev > BREAKEVEN_THRESHOLD[t] * MIN_EXPECTED_VALUE"
Qualifies(ev, best_ev, threshold) ==
    QGt(ev, best_ev) /\ QGt(ev, threshold)

RECURSIVE BestOver(_, _, _)
BestOver(evs, threshold, best) ==
    IF evs = <<>> THEN best
    ELSE LET e == Head(evs)
             take == Qualifies(e.v, best.ev, threshold)
         IN BestOver(Tail(evs), threshold,
                     IF take THEN [found |-> TRUE, key |-> e.k, ev |-> e.v]
                     ELSE best)

BestValue(evs, threshold, nokey) ==
    BestOver(evs, threshold, [found |-> FALSE, key |-> nokey, ev |-> Zero])

-----------------------------------------------------------------------------
(* BettingAnalyzer                                      betting_analyzer.py *)

\* Bound: how many times analyze() is called on one analyzer.
MaxAnalyzeCalls == 2

DEFAULT_BET_AMOUNT == 100
MAX_BET_AMOUNT == 300

\* The race the analyzer is constructed from.  Horses are numbered by their
\* umaban, in the order of race_data["horses"]; total_score is the weighted
\* score _analyze_horses derives for the horse (lines 128-216).
BAHorses == <<1, 2>>
BAScores == {0, 45, 55}

\* An entry of an odds table as scraped: absent, a text float() rejects, or
\* a decimal number (tenths).
NoOdds == [kind |-> "absent", lo |-> 0, hi |-> 0]
TextOdds == [kind |-> "text", lo |-> 0, hi |-> 0]
NumOdds(v) == [kind |-> "num", lo |-> v, hi |-> v]
\* An entry of fuku_odds: "lo-hi"
RangeOdds(lo, hi) == [kind |-> "range", lo |-> lo, hi |-> hi]

TanOddsChoices == {NoOdds, TextOdds} \cup {NumOdds(v) : v \in {20, 25, 26, 40}}
FukuOddsChoices == {NoOdds, RangeOdds(14, 20), RangeOdds(15, 30)}
UmarenOddsChoices == {NoOdds, NumOdds(28), NumOdds(30)}
Combo12 == <<1, 2>>

\* _analyze_horses: horse_analysis, rebuilt on every call, one entry per horse
HorseAnalysis(input) ==
    [i \in 1..Len(BAHorses) |-> [k |-> BAHorses[i], v |-> input.scores[BAHorses[i]]]]

\* _estimate_probabilities, lines 226-240
RECURSIVE EstimateOver(_, _, _)
EstimateOver(analysis, total, probs) ==
    IF analysis = <<>> THEN probs
    ELSE LET a == Head(analysis)
             \* raw_probability = total_score / total_score_sum
             win == Q(a.v, total)
             \* min(0.95, adjusted_probability * 2.5)
             place == IF 250 * a.v <= 95 * total
                      THEN Q(250 * a.v, 100 * total) ELSE Q(95, 100)
         IN EstimateOver(Tail(analysis), total,
                         [win |-> DictSet(probs.win, a.k, win),
                          place |-> DictSet(probs.place, a.k, place)])

EstimateProbabilities(analysis, probs) ==
    LET total_score_sum == SumSeq([i \in 1..Len(analysis) |-> analysis[i].v])
    IN IF total_score_sum > 0
       THEN EstimateOver(analysis, total_score_sum, probs)
       ELSE probs

\* _calculate_expected_values, lines 248-257: win bets
RECURSIVE TanEVs(_, _, _)
TanEVs(wp, tan_odds, evs) ==
    IF wp = <<>> THEN evs
    ELSE LET e == Head(wp)
             o == tan_odds[e.k]
         IN TanEVs(Tail(wp), tan_odds,
                   IF o.kind = "num"
                   THEN DictSet(evs, e.k, Q(e.v[1] * o.lo, e.v[2] * 10))
                   ELSE evs)

\* _calculate_expected_values, lines 259-271: place bets, at the low end of
\* the quoted range
RECURSIVE FukuEVs(_, _, _)
FukuEVs(pp, fuku_odds, evs) ==
    IF pp = <<>> THEN evs
    ELSE LET e == Head(pp)
             o == fuku_odds[e.k]
         IN FukuEVs(Tail(pp), fuku_odds,
                    IF o.kind = "range"
                    THEN DictSet(evs, e.k, Q(e.v[1] * o.lo, e.v[2] * 10))
                    ELSE evs)

\* _calculate_expected_values, lines 273-290: quinella, 2 * p_a * p_b * odds
RECURSIVE UmarenEVs(_, _, _)
UmarenEVs(umaren_odds, wp, evs) ==
    IF umaren_odds = <<>> THEN evs
    ELSE LET e == Head(umaren_odds)
             horse1 == e.k[1]
             horse2 == e.k[2]
             ok == /\ DictHas(wp, horse1) /\ DictHas(wp, horse2)
                   /\ e.v.kind = "num"
             p_a == DictGet(wp, horse1)
             p_b == DictGet(wp, horse2)
         IN UmarenEVs(Tail(umaren_odds), wp,
                      IF ok
                      THEN DictSet(evs, e.k,
                                   Q(2 * p_a[1] * p_b[1] * e.v.lo,
                                     p_a[2] * p_b[2] * 10))
                      ELSE evs)

\* the umaren_odds dict of the input: entries that are present
UmarenTable(input) ==
    IF input.umaren_odds.kind = "absent" THEN <<>>
    ELSE <<[k |-> Combo12, v |-> input.umaren_odds]>>

CalculateExpectedValues(input, wp, pp, evs) ==
    [evs EXCEPT
        !.tan = TanEVs(wp, input.tan_odds, evs.tan),
        !.fuku = FukuEVs(pp, input.fuku_odds, evs.fuku),
        !.umaren = UmarenEVs(UmarenTable(input), wp, evs.umaren)]

\* lines 299-341: best_bets, one entry per bet type with a qualifying
\* candidate, in the order tan, fuku, umaren
BestBets_NoUmaren(evs) ==
    LET tan == BestValue(evs.tan, Threshold("tan"), 0)
        fuku == BestValue(evs.fuku, Threshold("fuku"), 0)
    IN (IF tan.found THEN <<[k |-> "tan", v |-> tan]>> ELSE <<>>)
       \o (IF fuku.found THEN <<[k |-> "fuku", v |-> fuku]>> ELSE <<>>)

BestBets(evs) ==
    LET tan == BestValue(evs.tan, Threshold("tan"), 0)
        fuku == BestValue(evs.fuku, Threshold("fuku"), 0)
        umaren == BestValue(evs.umaren, Threshold("umaren"), <<>>)
    IN (IF tan.found THEN <<[k |-> "tan", v |-> tan]>> ELSE <<>>)
       \o (IF fuku.found THEN <<[k |-> "fuku", v |-> fuku]>> ELSE <<>>)
       \o (IF umaren.found THEN <<[k |-> "umaren", v |-> umaren]>> ELSE <<>>)

\* line 352: max(best_bets.keys(), key=ev), the first of the largest
RECURSIVE MaxByEV(_, _)
MaxByEV(bets, best) ==
    IF bets = <<>> THEN best
    ELSE MaxByEV(Tail(bets),
                 IF QGt(Head(bets).v.ev, best.v.ev) THEN Head(bets) ELSE best)

BestBetType_First(bets) == Head(bets)

BestBetType(bets) == MaxByEV(Tail(bets), Head(bets))

\* lines 359-367 and 390-398: the stake of a tan or fuku recommendation,
\*   kelly = max(0, (ev - 1) / (odds - 1))
\*   min(300, ceil(100 * (kelly / 4) / 0.1) * 100), at least 100
\* [raised, value]; raised when odds = 1.0 (ZeroDivisionError).
KellyAmount(ev, odds) ==
    LET en == (ev[1] - ev[2]) * 10          \* edge / (odds - 1) = en / ed
        ed == ev[2] * (odds - 10)
        kn == IF ed > 0 THEN Max2(0, en) ELSE Max2(0, -en)
        kd == IF ed > 0 THEN ed ELSE -ed
        bet_amount == Min2(MAX_BET_AMOUNT,
                           CeilDiv(DEFAULT_BET_AMOUNT * kn * 10, kd * 4) * 100)
    IN IF odds = 10 THEN [raised |-> TRUE, value |-> 0]
       ELSE [raised |-> FALSE, value |-> Max2(100, bet_amount)]

\* a recommendation entry; selection is the list of horses bet on
\* (lines 370-379, 401-410, 424-432); threshold is in tenths
Recommendation(bet_type, selection, ev, amount) ==
    [bet_type |-> bet_type, selection |-> selection, expected_value |-> ev,
     amount |-> amount, threshold |-> MIN_EXPECTED_VALUE,
     reason |-> "Best value bet", portfolio_adjusted |-> FALSE]

\* lines 344-348, and bet_type_analyzer.py lines 112-116; the entry has no
\* expected_value and no amount: both read as 0 where the code defaults them
NoBet ==
    [bet_type |-> "no_bet", selection |-> <<>>, expected_value |-> Zero,
     amount |-> 0, threshold |-> MIN_EXPECTED_VALUE,
     reason |-> "No value bets found with expected value above threshold",
     portfolio_adjusted |-> FALSE]

\* _make_betting_decisions: [raised, recs], the recommendations appended
MakeBettingDecisions(input, evs) ==
    LET best_bets == BestBets(evs)
        best == BestBetType(best_bets)
        key == best.v.key
        ev == best.v.ev
        odds == IF best.k = "tan" THEN input.tan_odds[key].lo
                ELSE input.fuku_odds[key].lo
        stake == KellyAmount(ev, odds)
    IN IF best_bets = <<>>
       THEN [raised |-> FALSE, recs |-> <<NoBet>>]
       ELSE IF best.k = "umaren"
       THEN [raised |-> FALSE,
             recs |-> <<Recommendation("umaren", key, ev, 100)>>]
       ELSE IF stake.raised
       THEN [raised |-> TRUE, recs |-> <<>>]
       ELSE [raised |-> FALSE,
             recs |-> <<Recommendation(best.k, <<key>>, ev, stake.value)>>]

\* analyze(): the whole pipeline on the analyzer's own state
analyze ==
    /\ under_test = "BettingAnalyzer"
    /\ ba_calls < MaxAnalyzeCalls
    /\ LET probs == EstimateProbabilities(
                        HorseAnalysis(ba_input),
                        [win |-> win_probabilities, place |-> place_probabilities])
           evs == CalculateExpectedValues(ba_input, probs.win, probs.place,
                                          expected_values)
           out == MakeBettingDecisions(ba_input, evs)
       IN /\ win_probabilities' = probs.win
          /\ place_probabilities' = probs.place
          /\ expected_values' = evs
          /\ recommendations' = recommendations \o out.recs
          /\ ba_raised' = out.raised
    /\ ba_calls' = ba_calls + 1
    /\ UNCHANGED ba_input

\* BettingAnalyzer(race_data)
InitAnalyzer ==
    /\ ba_input \in [scores : [{1, 2} -> BAScores],
                     tan_odds : [{1, 2} -> TanOddsChoices],
                     fuku_odds : [{1, 2} -> FukuOddsChoices],
                     umaren_odds : UmarenOddsChoices]
    /\ win_probabilities = <<>>
    /\ place_probabilities = <<>>
    /\ expected_values = [t \in AllBetTypes |-> <<>>]
    /\ recommendations = <<>>
    /\ ba_calls = 0
    /\ ba_raised = FALSE

IdleAnalyzer ==
    /\ ba_input = Idle
    /\ win_probabilities = <<>>
    /\ place_probabilities = <<>>
    /\ expected_values = [t \in AllBetTypes |-> <<>>]
    /\ recommendations = <<>>
    /\ ba_calls = 0
    /\ ba_raised = FALSE

-----------------------------------------------------------------------------
(* BetTypeAnalyzer                                     bet_type_analyzer.py *)

\* Bound: how many times a method of one BetTypeAnalyzer is called.
MaxBetTypeCalls == 2
\* Bound: the length of a recommendation list handed to the portfolio step.
MaxRecs == 3

MAX_PORTFOLIO_SIZE == 20000

\* self.expected_values.items(): the bet types in the order of the dict
BetTypeOrder ==
    <<"tan", "fuku", "umaren", "umatan", "wide", "sanrentan", "sanrenpuku">>

\* _calculate_tan_expected_values ... _calculate_sanrenpuku_expected_values,
\* lines 63-89: each body is "pass"
CalculateAllExpectedValues(evs) == evs

\* _add_tan_recommendation ... _add_sanrenpuku_recommendation, lines 139-165:
\* each body is "pass"
AddRecommendation(recs, bet_type, key, ev) == recs

\* _identify_value_bets, lines 97-109: value_bets, in the order of the types
RECURSIVE ValueBetsOver(_, _)
ValueBetsOver(types, evs) ==
    IF types = <<>> THEN <<>>
    ELSE LET bet_type == Head(types)
             best == BestValue(evs[bet_type], Threshold(bet_type), 0)
         IN (IF best.found THEN <<[k |-> bet_type, v |-> best]>> ELSE <<>>)
            \o ValueBetsOver(Tail(types), evs)

ValueBets(evs) == ValueBetsOver(BetTypeOrder, evs)

\* _identify_value_bets, lines 119-136
RECURSIVE AddAll(_, _)
AddAll(recs, value_bets) ==
    IF value_bets = <<>> THEN recs
    ELSE AddAll(AddRecommendation(recs, Head(value_bets).k,
                                  Head(value_bets).v.key, Head(value_bets).v.ev),
                Tail(value_bets))

\* _identify_value_bets, lines 91-136
IdentifyValueBets(evs, recs) ==
    LET value_bets == ValueBets(evs)
    IN IF value_bets = <<>> THEN Append(recs, NoBet) ELSE AddAll(recs, value_bets)

\* "amount" in rec: a no_bet entry carries neither amount nor expected_value
HasAmount(rec) == rec.bet_type # "no_bet"

\* line 174: list.sort(key=expected_value, reverse=True), which is stable
RECURSIVE InsertByEV(_, _)
InsertByEV(sorted, rec) ==
    IF sorted = <<>> THEN <<rec>>
    ELSE IF QGe(Head(sorted).expected_value, rec.expected_value)
         THEN <<Head(sorted)>> \o InsertByEV(Tail(sorted), rec)
         ELSE <<rec>> \o sorted

RECURSIVE SortByEV(_, _)
SortByEV(recs, sorted) ==
    IF recs = <<>> THEN sorted
    ELSE SortByEV(Tail(recs), InsertByEV(sorted, Head(recs)))

TotalAmount(recs) == SumSeq([i \in 1..Len(recs) |-> recs[i].amount])

\* line 183: math.ceil(amount * (MAX_PORTFOLIO_SIZE / total) / 100) * 100
ScaledAmount(amount, total) ==
    CeilDiv(amount * MAX_PORTFOLIO_SIZE, total * 100) * 100

\* _apply_portfolio_strategy, lines 167-184
ApplyPortfolioStrategy(recs) ==
    IF Len(recs) <= 1 THEN recs
    ELSE LET sorted == SortByEV(recs, <<>>)
             total_bet_amount == TotalAmount(sorted)
         IN IF total_bet_amount > MAX_PORTFOLIO_SIZE
            THEN [i \in 1..Len(sorted) |->
                     IF HasAmount(sorted[i])
                     THEN [sorted[i] EXCEPT
                              !.amount = ScaledAmount(@, total_bet_amount),
                              !.portfolio_adjusted = TRUE]
                     ELSE sorted[i]]
            ELSE sorted

\* analyze_all_bet_types(), lines 44-60
analyze_all_bet_types ==
    /\ under_test = "BetTypeAnalyzer"
    /\ bta_calls < MaxBetTypeCalls
    /\ LET evs == CalculateAllExpectedValues(bta_expected_values)
       IN /\ bta_expected_values' = evs
          /\ bta_recommendations' =
                 ApplyPortfolioStrategy(IdentifyValueBets(evs, bta_recommendations))
    /\ bta_calls' = bta_calls + 1
    /\ UNCHANGED bta_input

\* _identify_value_bets() alone, on expected values given to it
identify_value_bets ==
    /\ under_test = "BetTypeAnalyzer._identify_value_bets"
    /\ bta_calls < MaxBetTypeCalls
    /\ bta_recommendations' = IdentifyValueBets(bta_expected_values, bta_recommendations)
    /\ bta_calls' = bta_calls + 1
    /\ UNCHANGED <<bta_input, bta_expected_values>>

\* _apply_portfolio_strategy() alone, on a recommendation list given to it
apply_portfolio_strategy ==
    /\ under_test = "BetTypeAnalyzer._apply_portfolio_strategy"
    /\ bta_calls < MaxBetTypeCalls
    /\ bta_recommendations' = ApplyPortfolioStrategy(bta_recommendations)
    /\ bta_calls' = bta_calls + 1
    /\ UNCHANGED <<bta_input, bta_expected_values>>

NoExpectedValues == [t \in AllBetTypes |-> <<>>]

\* BetTypeAnalyzer(race_data, probabilities): the win probabilities
\* (percent) and the tan odds the analyzer is constructed from
BTAProbs == {30, 55}
InitBetType ==
    /\ bta_input \in [win : [{1, 2} -> BTAProbs],
                      tan_odds : [{1, 2} -> TanOddsChoices]]
    /\ bta_expected_values = NoExpectedValues
    /\ bta_recommendations = <<>>
    /\ bta_calls = 0

\* The expected values one bet type's table may hold when
\* _identify_value_bets is entered: nothing, a candidate exactly at the
\* threshold, or that candidate and one a thousandth above the threshold.
AtThreshold(t) == Threshold(t)
AboveThreshold(t) ==
    Q(BREAKEVEN_THRESHOLD[t] * MIN_EXPECTED_VALUE + 1, 1000)
EVTableKinds == {"empty", "at", "at_and_above"}
EVTable(t, kind) ==
    CASE kind = "empty" -> <<>>
      [] kind = "at" -> <<[k |-> 1, v |-> AtThreshold(t)]>>
      [] OTHER -> <<[k |-> 1, v |-> AtThreshold(t)], [k |-> 2, v |-> AboveThreshold(t)]>>

InitValueBets ==
    /\ bta_input = Idle
    /\ \E kind \in [AllBetTypes -> EVTableKinds] :
          bta_expected_values = [t \in AllBetTypes |-> EVTable(t, kind[t])]
    /\ bta_recommendations = <<>>
    /\ bta_calls = 0

\* The recommendation lists _apply_portfolio_strategy may be entered with:
\* up to MaxRecs entries whose stakes are multiples of 100.
PortfolioAmounts == {100, 7000, 20000}
PortfolioEVs == {Q(1500, 1000), Q(1600, 1000)}
PortfolioRecs ==
    {NoBet} \cup { Recommendation("tan", <<1>>, ev, a) :
                      ev \in PortfolioEVs, a \in PortfolioAmounts }
RecLists == UNION { [1..n -> PortfolioRecs] : n \in 0..MaxRecs }

InitPortfolio ==
    /\ bta_recommendations \in RecLists
    /\ bta_input = bta_recommendations
    /\ bta_expected_values = NoExpectedValues
    /\ bta_calls = 0

IdleBetType ==
    /\ bta_input = Idle
    /\ bta_expected_values = NoExpectedValues
    /\ bta_recommendations = <<>>
    /\ bta_calls = 0

-----------------------------------------------------------------------------
(* ProbabilityModels                                  probability_models.py *)
(*                                                                         *)
(* A horse number (umaban) is an integer, 0 for a horse whose number is    *)
(* missing ("if umaban:" is false for None and for the empty string).      *)
(* Probabilities are quotients <<n, d>> with d > 0.                        *)

\* Bounds: the estimations made on one object, and the races simulated in
\* each (the code simulates 10000).
MaxProbabilityCalls == 1
MaxSimulations == 1

One == <<1, 1>>

\* float() of "inf": odds the parser accepts and whose inverse is 0.0
InfOdds == [kind |-> "inf", lo |-> 0, hi |-> 0]

\* race_data["horses"]: one, two or three numbered horses, or a numbered
\* horse and one whose number is not known yet
HorseLists == {<<1>>, <<1, 2>>, <<1, 2, 3>>, <<1, 0>>}
Umabans(horses) == {horses[i] : i \in 1..Len(horses)} \ {0}

\* An entry of live_odds_data["tan_odds"]: missing, decimal odds 2.0 and
\* 4.0, text that is no number, 0, negative odds, "inf"
PMOddsChoices ==
    {NoOdds, NumOdds(20), NumOdds(40), TextOdds, NumOdds(0), NumOdds(-40), InfOdds}

\* one choice per numbered horse; the third horse of a race has odds of 4.0
\* or none
OddsChoicesFor(horses) ==
    {c \in [Umabans(horses) -> PMOddsChoices] :
        3 \in DOMAIN c => c[3] \in {NoOdds, NumOdds(40)}}

\* the dict built from one choice per horse number, in the order of the numbers
RECURSIVE TableOver(_, _, _)
TableOver(choice, k, n) ==
    IF k > n THEN <<>>
    ELSE (IF k \in DOMAIN choice /\ choice[k].kind # "absent"
          THEN <<[k |-> k, v |-> choice[k]]>> ELSE <<>>)
         \o TableOver(choice, k + 1, n)

\* A value of a factor's data: a number or a word
Num(x) == [num |-> x, text |-> ""]
Word(w) == [num |-> 0, text |-> w]

\* factor_weights, lines 139-148, in hundredths, in the order of the dict
FactorOrder ==
    <<"lap_time_analysis", "pedigree_assessment", "track_bias_impact",
      "pace_adaptability", "weather_impact", "distance_aptitude",
      "recovery_pattern", "factor_scores">>
factor_weights ==
    [f \in {FactorOrder[i] : i \in 1..Len(FactorOrder)} |->
        CASE f \in {"lap_time_analysis", "track_bias_impact", "distance_aptitude"} -> 15
          [] f \in {"pedigree_assessment", "weather_impact", "factor_scores"} -> 10
          [] f = "pace_adaptability" -> 20
          [] OTHER -> 5]

\* The analyses a horse can come with: none at all (no key), an empty one,
\* one that favours the horse and one that does not.
EmptyAnalysis == <<>>
StrongAnalysis ==
    <<[k |-> "lap_time_analysis", v |-> <<[k |-> "finishing_kick_score", v |-> Num(50)]>>],
      [k |-> "pedigree_assessment", v |-> <<>>],
      [k |-> "track_bias_impact", v |-> <<[k |-> "bias_advantage", v |-> Word("advantage")]>>],
      [k |-> "pace_adaptability",
       v |-> <<[k |-> "fast_pace_score", v |-> Num(100)],
               [k |-> "balanced_pace_score", v |-> Num(50)]>>],
      [k |-> "weather_impact", v |-> <<[k |-> "weather_advantage", v |-> Word("advantage")]>>],
      [k |-> "recovery_pattern", v |-> <<[k |-> "recovery_score", v |-> Num(90)]>>],
      [k |-> "factor_scores", v |-> <<[k |-> "total_score", v |-> Num(100)]>>]>>
WeakAnalysis ==
    <<[k |-> "distance_aptitude",
       v |-> <<[k |-> "distance_advantage", v |-> Word("disadvantage")]>>],
      [k |-> "factor_scores", v |-> <<[k |-> "total_score", v |-> Num(0)]>>]>>
AnalysisChoices == {"absent", "empty", "strong", "weak"}
\* one choice per numbered horse; in a race of three only the first horse
\* comes with an analysis
AnalysisChoicesFor(horses) ==
    {c \in [Umabans(horses) -> AnalysisChoices] :
        /\ 2 \in DOMAIN c => c[2] # "weak"
        /\ 3 \in DOMAIN c =>
              c[1] # "weak" /\ c[2] = "absent" /\ c[3] = "absent"}
AnalysisOf(choice) ==
    CASE choice = "strong" -> StrongAnalysis
      [] choice = "weak" -> WeakAnalysis
      [] OTHER -> EmptyAnalysis
RECURSIVE FactorAnalysisOver(_, _, _)
FactorAnalysisOver(choice, k, n) ==
    IF k > n THEN <<>>
    ELSE (IF k \in DOMAIN choice /\ choice[k] # "absent"
          THEN <<[k |-> k, v |-> AnalysisOf(choice[k])]>> ELSE <<>>)
         \o FactorAnalysisOver(choice, k + 1, n)

\* race_data["race_analysis"]["pace_scenario"], "balanced" when it is absent
PaceScenarios == {"balanced", "fast"}

\* race_data.get("live_odds_data", {}).get("tan_odds", {}), lines 66-67
TanOddsOf(race_data) ==
    IF race_data.live_odds_data THEN race_data.tan_odds ELSE <<>>

\* _calculate_market_priors, lines 69-74: the uniform prior
RECURSIVE UniformOver(_, _, _)
UniformOver(horses, horse_count, priors) ==
    IF horses = <<>> THEN priors
    ELSE UniformOver(Tail(horses), horse_count,
                     IF Head(horses) # 0
                     THEN DictSet(priors, Head(horses), Q(1, horse_count))
                     ELSE priors)

\* _calculate_market_priors, lines 79-86: the implied probabilities and
\* their sum; [raised, implied_probs, total_implied_prob].  float() rejects
\* text (ValueError, caught); 1.0 / 0.0 raises ZeroDivisionError, which the
\* except clause does not catch.
ImpliedProbability(odds) ==
    IF odds.kind = "inf" THEN Zero
    ELSE IF odds.lo > 0 THEN Q(10, odds.lo) ELSE Q(-10, -odds.lo)

RECURSIVE ImpliedOver(_, _, _)
ImpliedOver(items, implied_probs, total) ==
    IF items = <<>>
    THEN [raised |-> "none", implied_probs |-> implied_probs, total |-> total]
    ELSE LET e == Head(items)
         IN IF e.v.kind = "text"
            THEN ImpliedOver(Tail(items), implied_probs, total)
            ELSE IF e.v.kind = "num" /\ e.v.lo = 0
            THEN [raised |-> "ZeroDivisionError",
                  implied_probs |-> implied_probs, total |-> total]
            ELSE LET implied_prob == ImpliedProbability(e.v)
                 IN ImpliedOver(Tail(items),
                                DictSet(implied_probs, e.k, implied_prob),
                                QAdd(total, implied_prob))

\* sum(d.values()) and "for k in d: d[k] /= total"
RECURSIVE QSum(_)
QSum(d) == IF d = <<>> THEN Zero ELSE QAdd(Head(d).v, QSum(Tail(d)))
DivideAll(d, total) == [i \in 1..Len(d) |-> [k |-> d[i].k, v |-> QDiv(d[i].v, total)]]
Normalized(d) == IF QGt(QSum(d), Zero) THEN DivideAll(d, QSum(d)) ELSE d

\* _calculate_market_priors, lines 88-90: prob / total_implied_prob
PriorsFrom_Unnormalized(implied_probs, total) ==
    IF QGt(total, Zero) THEN implied_probs ELSE <<>>

PriorsFrom(implied_probs, total) ==
    IF QGt(total, Zero) THEN DivideAll(implied_probs, total) ELSE <<>>

\* _calculate_market_priors, lines 58-92: [raised, value]
CalculateMarketPriors(race_data) ==
    LET tan_odds == TanOddsOf(race_data)
    IN IF tan_odds = <<>>
       THEN [raised |-> "none",
             value |-> UniformOver(race_data.horses, Len(race_data.horses), <<>>)]
       ELSE LET r == ImpliedOver(tan_odds, <<>>, Zero)
            IN IF r.raised # "none"
               THEN [raised |-> r.raised, value |-> <<>>]
               ELSE [raised |-> "none",
                     value |-> PriorsFrom(r.implied_probs, r.total)]

\* bayesian_win_probability, lines 157-214: one factor's multiplier
ScoreRatio(score, weight) == Q(5000 + weight * (score - 50), 5000)
AdvantageRatio(advantage, weight) ==
    CASE advantage = "advantage" -> Q(100 + weight, 100)
      [] advantage = "disadvantage" -> Q(200 - weight, 200)
      [] OTHER -> One
\* lines 179-189: the pace score looked at, "balanced_pace_score" unless the
\* horse is in race_data["horses"] and the race's scenario is fast or slow
PaceKey(race_data, umaban) ==
    IF umaban \in Umabans(race_data.horses)
    THEN CASE race_data.pace_scenario = "fast" -> "fast_pace_score"
           [] race_data.pace_scenario = "slow" -> "slow_pace_score"
           [] OTHER -> "balanced_pace_score"
    ELSE "balanced_pace_score"
ScoreKey(factor, race_data, umaban) ==
    CASE factor = "lap_time_analysis" -> "finishing_kick_score"
      [] factor = "pedigree_assessment" -> "overall_score"
      [] factor = "track_bias_impact" -> "bias_score"
      [] factor = "pace_adaptability" -> PaceKey(race_data, umaban)
      [] factor = "weather_impact" -> "weather_advantage"
      [] factor = "distance_aptitude" -> "distance_advantage"
      [] factor = "factor_scores" -> "total_score"
      [] OTHER -> "no branch"
FactorRatio(factor, factor_data, race_data, umaban) ==
    LET key == ScoreKey(factor, race_data, umaban)
        weight == factor_weights[factor]
    IN IF ~DictHas(factor_data, key) THEN One
       ELSE IF factor \in {"weather_impact", "distance_aptitude"}
       THEN AdvantageRatio(DictGet(factor_data, key).text, weight)
       ELSE ScoreRatio(DictGet(factor_data, key).num, weight)

\* lines 154-214: the likelihood ratio of one horse's analysis
RECURSIVE LikelihoodOver(_, _, _, _)
LikelihoodOver(factors, analysis, race_data, umaban) ==
    IF factors = <<>> THEN One
    ELSE LET factor == Head(factors)
             rest == LikelihoodOver(Tail(factors), analysis, race_data, umaban)
         IN IF DictHas(analysis, factor)
            THEN QMul(FactorRatio(factor, DictGet(analysis, factor), race_data, umaban),
                      rest)
            ELSE rest
LikelihoodRatio(analysis, race_data, umaban) ==
    LikelihoodOver(FactorOrder, analysis, race_data, umaban)

\* lines 150-216: prior * likelihood ratio for every horse that has both
RECURSIVE PosteriorOver(_, _, _)
PosteriorOver(factor_analysis, race_data, posterior_probs) ==
    IF factor_analysis = <<>> THEN posterior_probs
    ELSE LET e == Head(factor_analysis)
         IN PosteriorOver(
                Tail(factor_analysis), race_data,
                IF DictHas(posterior_probs, e.k)
                THEN DictSet(posterior_probs, e.k,
                             QMul(DictGet(posterior_probs, e.k),
                                  LikelihoodRatio(e.v, race_data, e.k)))
                ELSE posterior_probs)

\* bayesian_win_probability, lines 128-223
BayesianWinProbability_Unnormalized(priors, factor_analysis, race_data) ==
    PosteriorOver(factor_analysis, race_data, priors)

BayesianWinProbability(priors, factor_analysis, race_data) ==
    Normalized(PosteriorOver(factor_analysis, race_data, priors))

\* estimate_place_probabilities, lines 236-242: the band transform
PlaceOf(win_prob) ==
    IF QGt(win_prob, <<3, 10>>) THEN QMin(<<4, 5>>, QMul(win_prob, <<3, 2>>))
    ELSE IF QGt(win_prob, <<15, 100>>) THEN QMin(<<3, 5>>, QMul(win_prob, <<2, 1>>))
    ELSE QMin(<<2, 5>>, QMul(win_prob, <<5, 2>>))

\* estimate_place_probabilities, lines 225-249
EstimatePlaceProbabilities(win) ==
    Normalized([i \in 1..Len(win) |-> [k |-> win[i].k, v |-> PlaceOf(win[i].v)]])

\* estimate_show_probabilities, lines 262-270
ShowOf(place_prob, win_prob) ==
    IF QGt(win_prob, <<1, 5>>) THEN QMin(<<9, 10>>, QMul(place_prob, <<13, 10>>))
    ELSE IF QGt(win_prob, <<1, 10>>) THEN QMin(<<7, 10>>, QMul(place_prob, <<3, 2>>))
    ELSE QMin(<<1, 2>>, QMul(place_prob, <<9, 5>>))

\* estimate_show_probabilities, lines 251-277
EstimateShowProbabilities(win, place) ==
    Normalized([i \in 1..Len(place) |->
                   [k |-> place[i].k,
                    v |-> ShowOf(place[i].v,
                                 IF DictHas(win, place[i].k)
                                 THEN DictGet(win, place[i].k) ELSE Zero)]])

\* _run_monte_carlo_simulation, lines 298-301, and _simulate_race, lines
\* 457-459: drawing one horse's value.  math.log raises ValueError for a
\* win probability that is not positive, and random.expovariate divides by
\* lambda, which is 0 for a win probability of 1.  The default 0.001 of
\* win_probabilities.get is never used: the keys come from the same dict.
DrawError(win_prob) ==
    IF ~QGt(win_prob, Zero) THEN "ValueError"
    ELSE IF QEq(win_prob, One) THEN "ZeroDivisionError"
    ELSE "none"

\* the first error met when one race is drawn, horse by horse
RECURSIVE RaceError(_)
RaceError(win) ==
    IF win = <<>> THEN "none"
    ELSE IF DrawError(Head(win).v) # "none" THEN DrawError(Head(win).v)
    ELSE RaceError(Tail(win))

\* sorted(horse_values.items(), key=value): the drawn values are positive
\* reals, so every finishing order of the horses can come out
FinishingOrders(win) ==
    LET horse_numbers == {win[i].k : i \in 1..Len(win)}
        n == Cardinality(horse_numbers)
    IN {order \in [1..n -> horse_numbers] :
           \A i, j \in 1..n : i # j => order[i] # order[j]}

\* "-".join(sorted([first, second])) and the same of three
SortedPair(a, b) == <<Min2(a, b), Max2(a, b)>>
SortedTriple(a, b, c) ==
    <<Min2(a, Min2(b, c)),
      a + b + c - Min2(a, Min2(b, c)) - Max2(a, Max2(b, c)),
      Max2(a, Max2(b, c))>>

\* counts[key] = counts.get(key, 0) + 1
Counted(counts, key) ==
    DictSet(counts, key, (IF DictHas(counts, key) THEN DictGet(counts, key) ELSE 0) + 1)

\* self.simulation_results before any simulation ({} in the code)
NoSimulation ==
    [exacta_counts |-> <<>>, quinella_counts |-> <<>>, trifecta_counts |-> <<>>,
     trio_counts |-> <<>>, num_simulations |-> 0]

\* the tally with the quinella key left in finishing order
Tallied_UnsortedQuinella(counts, order) ==
    IF Len(order) >= 3
    THEN [counts EXCEPT
             !.exacta_counts = Counted(@, <<order[1], order[2]>>),
             !.quinella_counts = Counted(@, <<order[1], order[2]>>),
             !.trifecta_counts = Counted(@, <<order[1], order[2], order[3]>>),
             !.trio_counts = Counted(@, SortedTriple(order[1], order[2], order[3]))]
    ELSE counts

\* _run_monte_carlo_simulation, lines 329-344: one race added to the counts
Tallied(counts, order) ==
    IF Len(order) >= 3
    THEN [counts EXCEPT
             !.exacta_counts = Counted(@, <<order[1], order[2]>>),
             !.quinella_counts = Counted(@, SortedPair(order[1], order[2])),
             !.trifecta_counts = Counted(@, <<order[1], order[2], order[3]>>),
             !.trio_counts = Counted(@, SortedTriple(order[1], order[2], order[3]))]
    ELSE counts

\* _run_monte_carlo_simulation, lines 279-355, given the order of each race
RECURSIVE SimulationResults(_, _, _)
SimulationResults(orders, i, counts) ==
    IF i > Len(orders) THEN [counts EXCEPT !.num_simulations = Len(orders)]
    ELSE SimulationResults(orders, i + 1, Tallied(counts, orders[i]))

\* estimate_exacta_probabilities ... estimate_trio_probabilities:
\* count / num_simulations
CountProbabilities(counts, num_simulations) ==
    [i \in 1..Len(counts) |->
        [k |-> counts[i].k, v |-> Q(counts[i].v, num_simulations)]]

NoProbabilities ==
    [win |-> <<>>, place |-> <<>>, show |-> <<>>, exacta |-> <<>>,
     quinella |-> <<>>, trifecta |-> <<>>, trio |-> <<>>]

PMCall(op, raised, value) == [op |-> op, raised |-> raised, value |-> value]

\* the constructor returned an object
Constructed == ~(pm_ret.op = "__init__" /\ pm_ret.raised # "none")

\* bayesian_win_probability(): returns the posterior, stores nothing
bayesian_win_probability ==
    /\ under_test = "ProbabilityModels"
    /\ Constructed
    /\ pm_ret' = PMCall("bayesian_win_probability", "none",
                        BayesianWinProbability(market_priors, pm_factor_analysis,
                                               pm_race_data))
    /\ UNCHANGED <<pm_race_data, pm_factor_analysis, market_priors,
                   pm_probabilities, simulation_results, pm_calls>>

\* estimate_all_probabilities(), lines 94-126.  An exception of the
\* simulation leaves the win, place and show probabilities assigned and the
\* rest as it was.
estimate_all_probabilities ==
    /\ under_test = "ProbabilityModels"
    /\ Constructed
    /\ pm_calls < MaxProbabilityCalls
    /\ pm_calls' = pm_calls + 1
    /\ \E win \in {BayesianWinProbability(market_priors, pm_factor_analysis,
                                           pm_race_data)} :
       \E place \in {EstimatePlaceProbabilities(win)} :
       \E show \in {EstimateShowProbabilities(win, place)} :
       \E error \in {RaceError(win)} :
          IF error # "none"
          THEN /\ pm_probabilities' =
                     [pm_probabilities EXCEPT
                         !.win = win, !.place = place, !.show = show]
               /\ pm_ret' = PMCall("estimate_all_probabilities", error, <<>>)
               /\ UNCHANGED simulation_results
          ELSE \E orders \in [1..MaxSimulations -> FinishingOrders(win)] :
               \E results \in {SimulationResults(orders, 1, NoSimulation)} :
                  LET n == results.num_simulations
                      all == [win |-> win, place |-> place, show |-> show,
                              exacta |-> CountProbabilities(results.exacta_counts, n),
                              quinella |-> CountProbabilities(results.quinella_counts, n),
                              trifecta |-> CountProbabilities(results.trifecta_counts, n),
                              trio |-> CountProbabilities(results.trio_counts, n)]
                  IN /\ simulation_results' = results
                     /\ pm_probabilities' = all
                     /\ pm_ret' = PMCall("estimate_all_probabilities", "none", all)
    /\ UNCHANGED <<pm_race_data, pm_factor_analysis, market_priors>>

\* _simulate_race(), lines 449-464: one finishing order from the stored win
\* probabilities
simulate_race ==
    /\ under_test = "ProbabilityModels"
    /\ Constructed
    /\ LET error == RaceError(pm_probabilities.win)
       IN IF error # "none"
          THEN pm_ret' = PMCall("_simulate_race", error, <<>>)
          ELSE \E order \in FinishingOrders(pm_probabilities.win) :
                  pm_ret' = PMCall("_simulate_race", "none", order)
    /\ UNCHANGED <<pm_race_data, pm_factor_analysis, market_priors,
                   pm_probabilities, simulation_results, pm_calls>>

\* ProbabilityModels(race_data, factor_analysis), lines 26-56: the
\* constructor computes the market priors, and raises what they raise
InitModels ==
    \E horses \in HorseLists, pace \in PaceScenarios, has_table \in BOOLEAN :
    \E odds \in OddsChoicesFor(horses), analyses \in AnalysisChoicesFor(horses) :
       LET table == TableOver(odds, 1, 3)
           race_data == [horses |-> horses, live_odds_data |-> has_table,
                         tan_odds |-> table, pace_scenario |-> pace]
           priors == CalculateMarketPriors(race_data)
       IN /\ table # <<>> => has_table
          /\ pm_race_data = race_data
          /\ pm_factor_analysis = FactorAnalysisOver(analyses, 1, 3)
          /\ market_priors = priors.value
          /\ pm_probabilities = NoProbabilities
          /\ simulation_results = NoSimulation
          /\ pm_ret = PMCall("__init__", priors.raised, <<>>)
          /\ pm_calls = 0

IdleModels ==
    /\ pm_race_data = Idle
    /\ pm_factor_analysis = <<>>
    /\ market_priors = <<>>
    /\ pm_probabilities = NoProbabilities
    /\ simulation_results = NoSimulation
    /\ pm_ret = PMCall(Idle, "none", <<>>)
    /\ pm_calls = 0

-----------------------------------------------------------------------------
(* ProbabilityModels, live updates                    probability_models.py *)
(*                                                                         *)
(* Times are minutes.  race_data gains the entries the recalculation check *)
(* reads: the win odds under the key "tan" of live_odds_data (the priors   *)
(* read the key "tan_odds"), track_condition, weather_data and the horses' *)
(* weight_diff (its magnitude in kg, 0 for a horse that has none).         *)

\* Bound: the calls of update_race_data on one object
MaxUpdates == 2

RECALCULATION_INTERVAL == 30
MOISTURE_THRESHOLD == 2
PRECIPITATION_THRESHOLD == 20
WIND_THRESHOLD == 5
ODDS_CHANGE_PERCENT == 15
TOP_FAVOURITES == 3
WEIGHT_THRESHOLD == 6

LiveRun == "ProbabilityModels.update_race_data"

\* The snapshots a poll can bring.  Horse 1 is the favourite at 3.0, 2.7 or
\* 2.5 (or 0 for a withdrawn horse), horse 2 stays at 5.0.
OddsKeys == {"tan_odds", "tan"}
FavouriteOdds == {30, 27, 25, 0}
WinTable(o1) == <<[k |-> 1, v |-> NumOdds(o1)], [k |-> 2, v |-> NumOdds(50)]>>
LiveOdds(key, o1) ==
    [tan_odds |-> IF key = "tan_odds" THEN WinTable(o1) ELSE <<>>,
     tan |-> IF key = "tan" THEN WinTable(o1) ELSE <<>>]
TrackConditions ==
    {[condition |-> "good", moisture |-> 8], [condition |-> "good", moisture |-> 9],
     [condition |-> "good", moisture |-> 10], [condition |-> "heavy", moisture |-> 8]}
WeatherChoices ==
    {[weather |-> "sunny", precipitation_prob |-> 10, wind_speed |-> 3],
     [weather |-> "rain", precipitation_prob |-> 10, wind_speed |-> 3],
     [weather |-> "sunny", precipitation_prob |-> 30, wind_speed |-> 3],
     [weather |-> "sunny", precipitation_prob |-> 10, wind_speed |-> 5]}
WeightDiffs == {<<2, 0>>, <<8, 0>>}
\* the minutes between two calls
Elapsed == {10, 40}

\* which key of live_odds_data the object's odds are stored under
OddsKeyOf(race_data) == IF race_data.tan # <<>> THEN "tan" ELSE "tan_odds"

\* new_data: a partial update, a dict with at most one of the entries
NewData(race_data) ==
    {<<>>}
    \cup {<<[k |-> "live_odds_data", v |-> LiveOdds(OddsKeyOf(race_data), o)]>> :
             o \in FavouriteOdds}
    \cup {<<[k |-> "track_condition", v |-> t]>> : t \in TrackConditions}
    \cup {<<[k |-> "weather_data", v |-> w]>> : w \in WeatherChoices}
    \cup {<<[k |-> "weight_diffs", v |-> d]>> : d \in WeightDiffs}

\* self.race_data.update(new_data), line 526
RaceDataUpdated(race_data, new_data) ==
    IF new_data = <<>> THEN race_data
    ELSE LET e == new_data[1]
         IN CASE e.k = "live_odds_data" ->
                   [race_data EXCEPT !.tan_odds = e.v.tan_odds, !.tan = e.v.tan]
              [] e.k = "track_condition" -> [race_data EXCEPT !.track_condition = e.v]
              [] e.k = "weather_data" -> [race_data EXCEPT !.weather_data = e.v]
              [] OTHER -> [race_data EXCEPT !.weight_diffs = e.v]

\* _extract_odds_data, _extract_track_condition, _extract_weather_data
ExtractOddsData(race_data) == [tan_odds |-> race_data.tan_odds, tan |-> race_data.tan]
ExtractTrackCondition(race_data) == race_data.track_condition
ExtractWeatherData(race_data) == race_data.weather_data

\* lines 619-633: some horse of both tables has odds that moved by 15% or
\* more of its previous odds
OddsMoved(prev_tan, curr_tan) ==
    \E i \in 1..Len(prev_tan) :
        /\ DictHas(curr_tan, prev_tan[i].k)
        /\ LET prev_odds == prev_tan[i].v.lo
               curr_odds == DictGet(curr_tan, prev_tan[i].k).lo
           IN /\ prev_odds > 0
              /\ 100 * Abs(curr_odds - prev_odds) >= ODDS_CHANGE_PERCENT * prev_odds

\* sorted(tan.items(), key=odds): a stable sort by ascending odds
RECURSIVE InsertByOdds(_, _)
InsertByOdds(e, sorted) ==
    IF sorted = <<>> THEN <<e>>
    ELSE IF e.v.lo < Head(sorted).v.lo THEN <<e>> \o sorted
    ELSE <<Head(sorted)>> \o InsertByOdds(e, Tail(sorted))
RECURSIVE SortByOdds(_, _)
SortByOdds(items, sorted) ==
    IF items = <<>> THEN sorted
    ELSE SortByOdds(Tail(items), InsertByOdds(Head(items), sorted))
\* lines 636-640: the numbers of the three horses at the shortest odds
Top3(tan) ==
    LET sorted == SortByOdds(tan, <<>>)
    IN [i \in 1..Min2(TOP_FAVOURITES, Len(sorted)) |-> sorted[i].k]

\* lines 648-661: a horse with a weight and a weight_diff above 6 kg
WeightChanged(race_data) ==
    \E i \in 1..Len(race_data.horses) :
        /\ race_data.horses[i] # 0
        /\ race_data.weight_diffs[i] # 0
        /\ race_data.weight_diffs[i] > WEIGHT_THRESHOLD

\* _check_recalculation_needed, lines 563-663
CheckRecalculationNeeded(now, last_full, race_data, prev_odds, curr_odds, prev_track, curr_track, prev_weather, curr_weather) ==
    \/ now - last_full > RECALCULATION_INTERVAL
    \/ prev_track.condition # curr_track.condition
    \/ Abs(curr_track.moisture - prev_track.moisture) >= MOISTURE_THRESHOLD
    \/ prev_weather.weather # curr_weather.weather
    \/ Abs(curr_weather.precipitation_prob - prev_weather.precipitation_prob)
          >= PRECIPITATION_THRESHOLD
    \/ (curr_weather.wind_speed >= WIND_THRESHOLD /\ prev_weather.wind_speed < WIND_THRESHOLD)
    \/ /\ prev_odds.tan # <<>> /\ curr_odds.tan # <<>>
       /\ \/ OddsMoved(prev_odds.tan, curr_odds.tan)
          \/ Top3(prev_odds.tan) # Top3(curr_odds.tan)
    \/ WeightChanged(race_data)

\* the win odds of the snapshot, under whichever key they are stored
WinOddsOf(race_data) ==
    IF race_data.tan # <<>> THEN race_data.tan ELSE race_data.tan_odds

\* self.cached_probabilities: {} or a set of probabilities
NoCache == [empty |-> TRUE, probabilities |-> NoProbabilities]
Cached(all) == [empty |-> FALSE, probabilities |-> all]

\* update_race_data(new_data), lines 512-561.  The snapshots are replaced
\* before the check (lines 546-548); an exception of the recalculation
\* leaves the method at the statement that raised.
update_race_data ==
    /\ under_test = LiveRun
    /\ pm_updates < MaxUpdates
    /\ pm_updates' = pm_updates + 1
    /\ \E new_data \in NewData(pm_race_data), elapsed \in Elapsed :
       \E race_data \in {RaceDataUpdated(pm_race_data, new_data)} :
       \E needed \in {CheckRecalculationNeeded(
                          clock + elapsed, last_full_recalculation_time, race_data,
                          previous_odds_data, ExtractOddsData(race_data),
                          previous_track_condition, ExtractTrackCondition(race_data),
                          previous_weather_data, ExtractWeatherData(race_data))} :
          /\ clock' = clock + elapsed
          /\ pm_race_data' = race_data
          /\ previous_odds_data' = ExtractOddsData(race_data)
          /\ previous_track_condition' = ExtractTrackCondition(race_data)
          /\ previous_weather_data' = ExtractWeatherData(race_data)
          /\ triggered_at' = IF needed THEN pm_updates + 1 ELSE triggered_at
          /\ IF ~needed
             THEN /\ pm_ret' = PMCall("update_race_data", "none", FALSE)
                  /\ UNCHANGED <<market_priors, cached_probabilities, pm_probabilities,
                                 simulation_results, last_full_recalculation_time,
                                 cached_after, recalculated_odds>>
             ELSE \E priors \in {CalculateMarketPriors(race_data)} :
                  IF priors.raised # "none"
                  THEN /\ pm_ret' = PMCall("update_race_data", priors.raised, TRUE)
                       /\ UNCHANGED <<market_priors, cached_probabilities,
                                      pm_probabilities, simulation_results,
                                      last_full_recalculation_time, cached_after,
                                      recalculated_odds>>
                  ELSE
                  \E win \in {BayesianWinProbability(priors.value, pm_factor_analysis,
                                                     race_data)} :
                  \E place \in {EstimatePlaceProbabilities(win)} :
                  \E show \in {EstimateShowProbabilities(win, place)} :
                  \E error \in {RaceError(win)} :
                     /\ market_priors' = priors.value
                     /\ cached_probabilities' = NoCache
                     /\ cached_after' = pm_updates + 1
                     /\ IF error # "none"
                        THEN /\ pm_probabilities' =
                                   [pm_probabilities EXCEPT
                                       !.win = win, !.place = place, !.show = show]
                             /\ pm_ret' = PMCall("update_race_data", error, TRUE)
                             /\ UNCHANGED <<simulation_results,
                                            last_full_recalculation_time,
                                            recalculated_odds>>
                        ELSE \E orders \in [1..MaxSimulations -> FinishingOrders(win)] :
                             \E results \in {SimulationResults(orders, 1, NoSimulation)} :
                                LET n == results.num_simulations
                                IN /\ simulation_results' = results
                                   /\ pm_probabilities' =
                                         [win |-> win, place |-> place, show |-> show,
                                          exacta |-> CountProbabilities(results.exacta_counts, n),
                                          quinella |-> CountProbabilities(results.quinella_counts, n),
                                          trifecta |-> CountProbabilities(results.trifecta_counts, n),
                                          trio |-> CountProbabilities(results.trio_counts, n)]
                                   /\ pm_ret' = PMCall("update_race_data", "none", TRUE)
                                   /\ last_full_recalculation_time' = clock + elapsed
                                   /\ recalculated_odds' = WinOddsOf(race_data)
    /\ UNCHANGED <<pm_factor_analysis, pm_calls>>

\* get_cached_probabilities(), lines 665-675: an empty cache is filled by
\* estimate_all_probabilities()
get_cached_probabilities ==
    /\ under_test = LiveRun
    /\ IF ~cached_probabilities.empty
       THEN /\ pm_ret' = PMCall("get_cached_probabilities", "none",
                                cached_probabilities.probabilities)
            /\ UNCHANGED <<pm_probabilities, simulation_results,
                           cached_probabilities, cached_after>>
       ELSE \E win \in {BayesianWinProbability(market_priors, pm_factor_analysis,
                                               pm_race_data)} :
            \E place \in {EstimatePlaceProbabilities(win)} :
            \E show \in {EstimateShowProbabilities(win, place)} :
            \E error \in {RaceError(win)} :
               IF error # "none"
               THEN /\ pm_probabilities' =
                          [pm_probabilities EXCEPT
                              !.win = win, !.place = place, !.show = show]
                    /\ pm_ret' = PMCall("get_cached_probabilities", error, <<>>)
                    /\ UNCHANGED <<simulation_results, cached_probabilities, cached_after>>
               ELSE \E orders \in [1..MaxSimulations -> FinishingOrders(win)] :
                    \E results \in {SimulationResults(orders, 1, NoSimulation)} :
                       LET n == results.num_simulations
                           all == [win |-> win, place |-> place, show |-> show,
                                   exacta |-> CountProbabilities(results.exacta_counts, n),
                                   quinella |-> CountProbabilities(results.quinella_counts, n),
                                   trifecta |-> CountProbabilities(results.trifecta_counts, n),
                                   trio |-> CountProbabilities(results.trio_counts, n)]
                       IN /\ simulation_results' = results
                          /\ pm_probabilities' = all
                          /\ cached_probabilities' = Cached(all)
                          /\ cached_after' = pm_updates
                          /\ pm_ret' = PMCall("get_cached_probabilities", "none", all)
    /\ UNCHANGED <<pm_race_data, pm_factor_analysis, market_priors, pm_calls,
                   previous_odds_data, previous_track_condition, previous_weather_data,
                   last_full_recalculation_time, clock, pm_updates,
                   recalculated_odds, triggered_at>>

\* ProbabilityModels(race_data, {}) for a race of two horses, the favourite
\* at 3.0, lines 26-56
InitLiveModels ==
    \E key \in OddsKeys, weight_diffs \in WeightDiffs :
       LET odds == LiveOdds(key, 30)
           race_data == [horses |-> <<1, 2>>, live_odds_data |-> TRUE,
                         tan_odds |-> odds.tan_odds, tan |-> odds.tan,
                         pace_scenario |-> "balanced",
                         track_condition |-> [condition |-> "good", moisture |-> 8],
                         weather_data |-> [weather |-> "sunny", precipitation_prob |-> 10,
                                           wind_speed |-> 3],
                         weight_diffs |-> weight_diffs]
       IN /\ pm_race_data = race_data
          /\ pm_factor_analysis = <<>>
          /\ market_priors = CalculateMarketPriors(race_data).value
          /\ pm_probabilities = NoProbabilities
          /\ simulation_results = NoSimulation
          /\ pm_ret = PMCall("__init__", "none", <<>>)
          /\ pm_calls = 0
          /\ previous_odds_data = ExtractOddsData(race_data)
          /\ previous_track_condition = ExtractTrackCondition(race_data)
          /\ previous_weather_data = ExtractWeatherData(race_data)
          /\ last_full_recalculation_time = 0
          /\ clock = 0
          /\ cached_probabilities = NoCache
          /\ pm_updates = 0
          /\ cached_after = 0
          /\ recalculated_odds = WinOddsOf(race_data)
          /\ triggered_at = 0

-----------------------------------------------------------------------------
(* The objects a run does not construct                                    *)

IdleUpdates ==
    /\ previous_odds_data = Idle
    /\ previous_track_condition = Idle
    /\ previous_weather_data = Idle
    /\ last_full_recalculation_time = 0
    /\ clock = 0
    /\ cached_probabilities = <<>>
    /\ pm_updates = 0
    /\ cached_after = 0
    /\ recalculated_odds = <<>>
    /\ triggered_at = 0

IdleSelector ==
    /\ race_database = {}
    /\ race_scores = <<>>
    /\ rs_input = <<>>
    /\ rs_ret = Idle

IdleScheduler ==
    /\ running = FALSE
    /\ thread = 0
    /\ loops = <<>>
    /\ caller = Idle
    /\ asked_to_stop = {}
    /\ resumed = {}

IdleRest == IdleUpdates /\ IdleSelector /\ IdleScheduler

-----------------------------------------------------------------------------
(* Specifications: one per object under test                              *)

InitBankrollRun ==
    /\ under_test = SizingRun
    /\ InitBankroll /\ IdleAnalyzer /\ IdleBetType /\ IdleModels /\ IdleRest
NextBankroll ==
    \/ record_bet /\ UNCHANGED <<under_test, rest_vars, ba_vars, bta_vars, pm_vars>>
    \/ call_calculate_bet_size /\ UNCHANGED <<under_test, rest_vars, ba_vars, bta_vars, pm_vars>>
SpecBankroll == InitBankrollRun /\ [][NextBankroll]_vars

InitDrawdownRun ==
    /\ under_test = DrawdownRun
    /\ InitBankroll /\ IdleAnalyzer /\ IdleBetType /\ IdleModels /\ IdleRest
NextDrawdown ==
    \/ record_bet /\ UNCHANGED <<under_test, rest_vars, ba_vars, bta_vars, pm_vars>>
    \/ call_calculate_bet_size /\ UNCHANGED <<under_test, rest_vars, ba_vars, bta_vars, pm_vars>>
    \/ adjust_for_drawdown_protection /\ UNCHANGED <<under_test, rest_vars, ba_vars, bta_vars, pm_vars>>
    \/ get_performance_report /\ UNCHANGED <<under_test, rest_vars, ba_vars, bta_vars, pm_vars>>
    \/ recommend_bankroll_strategy /\ UNCHANGED <<under_test, rest_vars, ba_vars, bta_vars, pm_vars>>
SpecDrawdown == InitDrawdownRun /\ [][NextDrawdown]_vars

InitStrategyRun ==
    /\ under_test = StrategyRun
    /\ InitBankroll /\ IdleAnalyzer /\ IdleBetType /\ IdleModels /\ IdleRest
NextStrategy ==
    \/ record_bet /\ UNCHANGED <<under_test, rest_vars, ba_vars, bta_vars, pm_vars>>
    \/ adjust_for_drawdown_protection /\ UNCHANGED <<under_test, rest_vars, ba_vars, bta_vars, pm_vars>>
    \/ recommend_bankroll_strategy /\ UNCHANGED <<under_test, rest_vars, ba_vars, bta_vars, pm_vars>>
SpecStrategy == InitStrategyRun /\ [][NextStrategy]_vars

InitDecision ==
    \/ /\ under_test = "BettingAnalyzer"
       /\ InitAnalyzer /\ IdleBankroll /\ IdleBetType /\ IdleModels /\ IdleRest
    \/ /\ under_test = "BetTypeAnalyzer._identify_value_bets"
       /\ InitValueBets /\ IdleBankroll /\ IdleAnalyzer /\ IdleModels /\ IdleRest
NextDecision ==
    \/ analyze /\ UNCHANGED <<under_test, rest_vars, bankroll_vars, bta_vars, pm_vars>>
    \/ identify_value_bets /\ UNCHANGED <<under_test, rest_vars, bankroll_vars, ba_vars, pm_vars>>
SpecDecision == InitDecision /\ [][NextDecision]_vars

InitPortfolioRun ==
    /\ under_test = "BetTypeAnalyzer._apply_portfolio_strategy"
    /\ InitPortfolio /\ IdleBankroll /\ IdleAnalyzer /\ IdleModels /\ IdleRest
NextPortfolio ==
    apply_portfolio_strategy /\ UNCHANGED <<under_test, rest_vars, bankroll_vars, ba_vars, pm_vars>>
SpecPortfolio == InitPortfolioRun /\ [][NextPortfolio]_vars

InitBetTypeRun ==
    /\ under_test = "BetTypeAnalyzer"
    /\ InitBetType /\ IdleBankroll /\ IdleAnalyzer /\ IdleModels /\ IdleRest
NextBetType ==
    analyze_all_bet_types /\ UNCHANGED <<under_test, rest_vars, bankroll_vars, ba_vars, pm_vars>>
SpecBetType == InitBetTypeRun /\ [][NextBetType]_vars

InitProbabilityRun ==
    /\ under_test = "ProbabilityModels"
    /\ InitModels /\ IdleBankroll /\ IdleAnalyzer /\ IdleBetType /\ IdleRest
NextProbability ==
    \/ bayesian_win_probability /\ UNCHANGED <<under_test, rest_vars, bankroll_vars, ba_vars, bta_vars>>
    \/ estimate_all_probabilities /\ UNCHANGED <<under_test, rest_vars, bankroll_vars, ba_vars, bta_vars>>
    \/ simulate_race /\ UNCHANGED <<under_test, rest_vars, bankroll_vars, ba_vars, bta_vars>>
SpecProbability == InitProbabilityRun /\ [][NextProbability]_vars

InitLiveRun ==
    /\ under_test = LiveRun
    /\ InitLiveModels /\ IdleBankroll /\ IdleAnalyzer /\ IdleBetType
    /\ IdleSelector /\ IdleScheduler
NextLive ==
    \/ update_race_data
         /\ UNCHANGED <<under_test, bankroll_vars, ba_vars, bta_vars, rs_vars, sch_vars>>
    \/ get_cached_probabilities
         /\ UNCHANGED <<under_test, bankroll_vars, ba_vars, bta_vars, rs_vars, sch_vars>>
SpecLive == InitLiveRun /\ [][NextLive]_vars

-----------------------------------------------------------------------------
(* RaceSelector                                                            *)

SelectorRun == "RaceSelector"
\* the races handed to one call of score_races are at most this many
MaxRaces == 2
RaceIds == {1, 2}

\* selection_criteria, with the weights in hundredths
FIELD_SIZE_MIN == 6
FIELD_SIZE_MAX == 16
FIELD_SIZE_WEIGHT == 10
RACE_CLASS_WEIGHT == 15
TRACK_CONDITION_WEIGHT == 10
MARKET_INEFFICIENCY_WEIGHT == 25
DATA_AVAILABILITY_WEIGHT == 20
HISTORICAL_EDGE_WEIGHT == 20
PreferredClasses == {"G1", "G2", "G3", "OP", "3wins"}
PreferredConditions == {"good", "slightly_heavy"}

\* The race data one race can carry: the number of horses, the class, the
\* going, the win odds in tenths (live_odds_data is present when the table
\* is not empty) and the marks of the data availability checks.
RaceDataChoices ==
    { [horses |-> 11, race_class |-> "G1", track_condition |-> "good",
       tan_odds |-> <<20, 20, 25>>, described |-> TRUE, pedigree |-> TRUE,
       training |-> TRUE, profiles |-> TRUE, speed_figures |-> TRUE],
      [horses |-> 14, race_class |-> "G3", track_condition |-> "heavy",
       tan_odds |-> <<20, 20, 40>>, described |-> TRUE, pedigree |-> TRUE,
       training |-> TRUE, profiles |-> TRUE, speed_figures |-> FALSE],
      [horses |-> 18, race_class |-> "1win", track_condition |-> "good",
       tan_odds |-> <<>>, described |-> TRUE, pedigree |-> FALSE,
       training |-> FALSE, profiles |-> FALSE, speed_figures |-> FALSE],
      [horses |-> 4, race_class |-> "OP", track_condition |-> "good",
       tan_odds |-> <<20, 30, 40>>, described |-> FALSE, pedigree |-> TRUE,
       training |-> FALSE, profiles |-> FALSE, speed_figures |-> FALSE],
      [horses |-> 11, race_class |-> "G1", track_condition |-> "good",
       tan_odds |-> <<0, 30>>, described |-> TRUE, pedigree |-> TRUE,
       training |-> TRUE, profiles |-> TRUE, speed_figures |-> TRUE] }
\* the dicts of races a caller can pass, in the order of their keys
RacesOfLength(n) ==
    { r \in [1..n -> [k : RaceIds, v : RaceDataChoices]] :
        \A i, j \in 1..n : i # j => r[i].k # r[j].k }
RacesChoices == UNION { RacesOfLength(n) : n \in 0..MaxRaces }
MinScores == {Q(70, 1), Q(50, 1)}
Limits == {1, 5}

FieldSizeScore(field_size) ==
    IF field_size < FIELD_SIZE_MIN THEN Q(30, 1)
    ELSE IF field_size > FIELD_SIZE_MAX THEN Q(50, 1)
    ELSE Q(100 * (FIELD_SIZE_MAX - FIELD_SIZE_MIN)
             - 50 * Abs(2 * field_size - (FIELD_SIZE_MIN + FIELD_SIZE_MAX)),
           FIELD_SIZE_MAX - FIELD_SIZE_MIN)
ClassScore(race_class) == IF race_class \in PreferredClasses THEN 100 ELSE 50
ConditionScore(track_condition) ==
    IF track_condition \in PreferredConditions THEN 100 ELSE 60

\* the sum of 1.0 / odds over the table
RECURSIVE TotalImpliedProb(_)
TotalImpliedProb(tan_odds) ==
    IF tan_odds = <<>> THEN Zero
    ELSE QAdd(Q(10, Head(tan_odds)), TotalImpliedProb(Tail(tan_odds)))
\* 1.0 / odds is outside what the try catches when the odds are 0
MarketInefficiencyScore(race_data) ==
    IF race_data.tan_odds = <<>> THEN [raised |-> "none", value |-> 50]
    ELSE IF \E i \in 1..Len(race_data.tan_odds) : race_data.tan_odds[i] = 0
    THEN [raised |-> "ZeroDivisionError", value |-> 0]
    ELSE LET total_implied_prob == TotalImpliedProb(race_data.tan_odds)
             overround == QAdd(total_implied_prob, <<-1, 1>>)
         IN [raised |-> "none",
             value |-> IF QEq(total_implied_prob, Zero) THEN 50
                       ELSE IF QGt(overround, Q(3, 10)) THEN 90
                       ELSE IF QGt(overround, Q(2, 10)) THEN 80
                       ELSE IF QGt(overround, Q(15, 100)) THEN 70
                       ELSE 50]
Mark(check) == IF check THEN 1 ELSE 0
DataAvailabilityScore(race_data) ==
    LET horses == race_data.horses > 0
        score == Mark(race_data.described)
                 + Mark(horses /\ race_data.pedigree)
                 + Mark(horses /\ race_data.training)
                 + Mark(horses /\ race_data.profiles)
                 + Mark(race_data.tan_odds # <<>>)
                 + Mark(race_data.speed_figures)
    IN Q(score * 100, 6)
HistoricalEdgeScore == 60

\* _calculate_race_score: the weighted sum of the six components
CalculateRaceScore(race_data) ==
    LET market == MarketInefficiencyScore(race_data)
        fixed == RACE_CLASS_WEIGHT * ClassScore(race_data.race_class)
                 + TRACK_CONDITION_WEIGHT * ConditionScore(race_data.track_condition)
                 + MARKET_INEFFICIENCY_WEIGHT * market.value
                 + HISTORICAL_EDGE_WEIGHT * HistoricalEdgeScore
    IN [raised |-> market.raised,
        value |-> QAdd(QAdd(QMul(Q(FIELD_SIZE_WEIGHT, 100), FieldSizeScore(race_data.horses)),
                            QMul(Q(DATA_AVAILABILITY_WEIGHT, 100), DataAvailabilityScore(race_data))),
                       Q(fixed, 100))]

\* the loop of score_races from race i on: an exception leaves the scores
\* entered so far
RECURSIVE ScoresOver(_, _, _)
ScoresOver(races, i, scores) ==
    IF i > Len(races) THEN [raised |-> "none", scores |-> scores]
    ELSE LET score == CalculateRaceScore(races[i].v)
         IN IF score.raised # "none"
            THEN [raised |-> score.raised, scores |-> scores]
            ELSE ScoresOver(races, i + 1,
                            Append(scores, [k |-> races[i].k, v |-> score.value]))

\* sorted(..., key = score, reverse = True): stable, so races of equal
\* score keep the order in which they were scored
RECURSIVE InsertByScore(_, _)
InsertByScore(sorted, item) ==
    IF sorted = <<>> THEN <<item>>
    ELSE IF QGe(Head(sorted).v, item.v)
         THEN <<Head(sorted)>> \o InsertByScore(Tail(sorted), item)
         ELSE <<item>> \o sorted
RECURSIVE SortByScore(_, _)
SortByScore(items, sorted) ==
    IF items = <<>> THEN sorted
    ELSE SortByScore(Tail(items), InsertByScore(sorted, Head(items)))

\* the comprehension of get_recommended_races over the sorted scores
RECURSIVE RecommendedOver(_, _, _)
RecommendedOver(sorted_races, database, min_score) ==
    IF sorted_races = <<>> THEN <<>>
    ELSE (IF QGe(Head(sorted_races).v, min_score) /\ Head(sorted_races).k \in database
          THEN <<Head(sorted_races)>> ELSE <<>>)
         \o RecommendedOver(Tail(sorted_races), database, min_score)
FirstOf(items, limit) == SubSeq(items, 1, Min2(limit, Len(items)))

\* the list get_recommended_races returns, as pairs of race id and score
RecommendedRaces(scores, database, min_score, limit) ==
    IF scores = <<>> THEN <<>>
    ELSE FirstOf(RecommendedOver(SortByScore(scores, <<>>), database, min_score), limit)

RSCall(op, raised, value, min_score, limit) ==
    [op |-> op, raised |-> raised, value |-> value,
     min_score |-> min_score, limit |-> limit]

score_races ==
    /\ under_test = SelectorRun
    /\ \E races \in RacesChoices :
         \E scored \in {ScoresOver(races, 1, <<>>)} :
            /\ rs_input' = races
            /\ race_scores' = scored.scores
            /\ rs_ret' = RSCall("score_races", scored.raised, scored.scores, Zero, 0)
    /\ UNCHANGED race_database

get_recommended_races ==
    /\ under_test = SelectorRun
    /\ \E min_score \in MinScores, limit \in Limits :
         rs_ret' = RSCall("get_recommended_races", "none",
                          RecommendedRaces(race_scores, race_database, min_score, limit),
                          min_score, limit)
    /\ UNCHANGED <<race_database, race_scores, rs_input>>

InitSelector ==
    /\ race_database \in SUBSET RaceIds
    /\ race_scores = <<>>
    /\ rs_input = <<>>
    /\ rs_ret = RSCall("__init__", "none", <<>>, Zero, 0)

InitSelectorRun ==
    /\ under_test = SelectorRun
    /\ InitSelector /\ IdleBankroll /\ IdleAnalyzer /\ IdleBetType /\ IdleModels
    /\ IdleUpdates /\ IdleScheduler
NextSelector ==
    \/ score_races
         /\ UNCHANGED <<under_test, bankroll_vars, ba_vars, bta_vars, pm_vars, live_vars, sch_vars>>
    \/ get_recommended_races
         /\ UNCHANGED <<under_test, bankroll_vars, ba_vars, bta_vars, pm_vars, live_vars, sch_vars>>
SpecSelector == InitSelectorRun /\ [][NextSelector]_vars

-----------------------------------------------------------------------------
(* RaceDataScheduler                                          scheduler.py *)

SchedulerRun == "RaceDataScheduler"
\* Bound: how many scheduler threads one run starts.
MaxThreads == 3

\* loops[i] is where the i-th thread started by start() stands in
\* run_scheduler:
\*   "check"        about to test `while self.running`
\*   "run_pending"  inside schedule.run_pending(), executing the due jobs
\*   "sleep"        inside time.sleep(1)
\*   "done"         left the loop; the thread has ended
\* thread is the index of self.thread (0 is None), and caller is where the
\* caller of start() and stop() stands: Idle between calls, "join" inside
\* self.thread.join(timeout=5).
Alive(i) == loops[i] # "done"

\* start()
start ==
    /\ under_test = SchedulerRun
    /\ caller = Idle
    /\ IF running
       THEN UNCHANGED <<running, thread, loops>>
       ELSE /\ Len(loops) < MaxThreads
            /\ running' = TRUE
            /\ loops' = Append(loops, "check")
            /\ thread' = Len(loops) + 1
    /\ UNCHANGED <<caller, asked_to_stop, resumed>>

\* stop(), up to the join: every loop still alive is asked to stop by the
\* flag it reads
stop ==
    /\ under_test = SchedulerRun
    /\ caller = Idle
    /\ IF ~running
       THEN UNCHANGED <<running, caller, asked_to_stop>>
       ELSE /\ running' = FALSE
            /\ caller' = IF thread # 0 THEN "join" ELSE Idle
            /\ asked_to_stop' = asked_to_stop \cup {i \in 1..Len(loops) : Alive(i)}
    /\ UNCHANGED <<thread, loops, resumed>>

\* join(timeout=5) returns because the thread has ended
join_returns ==
    /\ under_test = SchedulerRun
    /\ caller = "join"
    /\ ~Alive(thread)
    /\ caller' = Idle
    /\ UNCHANGED <<running, thread, loops, asked_to_stop, resumed>>

\* join(timeout=5) returns after 5 seconds with the thread still inside
\* run_pending (a thread in sleep(1) reaches the test of the flag in time)
join_times_out ==
    /\ under_test = SchedulerRun
    /\ caller = "join"
    /\ loops[thread] = "run_pending"
    /\ caller' = Idle
    /\ UNCHANGED <<running, thread, loops, asked_to_stop, resumed>>

\* one step of the loop of run_scheduler in thread i
run_scheduler(i) ==
    /\ under_test = SchedulerRun
    /\ \/ /\ loops[i] = "check"
          /\ running
          /\ loops' = [loops EXCEPT ![i] = "run_pending"]
          /\ resumed' = IF i \in asked_to_stop THEN resumed \cup {i} ELSE resumed
       \/ /\ loops[i] = "check"
          /\ ~running
          /\ loops' = [loops EXCEPT ![i] = "done"]
          /\ UNCHANGED resumed
       \/ /\ loops[i] = "run_pending"
          /\ loops' = [loops EXCEPT ![i] = "sleep"]
          /\ UNCHANGED resumed
       \/ /\ loops[i] = "sleep"
          /\ loops' = [loops EXCEPT ![i] = "check"]
          /\ UNCHANGED resumed
    /\ UNCHANGED <<running, thread, caller, asked_to_stop>>

\* RaceDataScheduler()
InitScheduler ==
    /\ running = FALSE
    /\ thread = 0
    /\ loops = <<>>
    /\ caller = Idle
    /\ asked_to_stop = {}
    /\ resumed = {}

InitSchedulerRun ==
    /\ under_test = SchedulerRun
    /\ InitScheduler /\ IdleBankroll /\ IdleAnalyzer /\ IdleBetType /\ IdleModels
    /\ IdleUpdates /\ IdleSelector
NextScheduler ==
    \/ start
         /\ UNCHANGED <<under_test, bankroll_vars, ba_vars, bta_vars, pm_vars, live_vars, rs_vars>>
    \/ stop
         /\ UNCHANGED <<under_test, bankroll_vars, ba_vars, bta_vars, pm_vars, live_vars, rs_vars>>
    \/ join_returns
         /\ UNCHANGED <<under_test, bankroll_vars, ba_vars, bta_vars, pm_vars, live_vars, rs_vars>>
    \/ join_times_out
         /\ UNCHANGED <<under_test, bankroll_vars, ba_vars, bta_vars, pm_vars, live_vars, rs_vars>>
    \/ \E i \in 1..Len(loops) :
         run_scheduler(i)
           /\ UNCHANGED <<under_test, bankroll_vars, ba_vars, bta_vars, pm_vars, live_vars, rs_vars>>
SpecScheduler == InitSchedulerRun /\ [][NextScheduler]_vars

\* Every object, one per run
Init == InitBankrollRun \/ InitDrawdownRun \/ InitStrategyRun \/ InitProbabilityRun
            \/ InitDecision \/ InitPortfolioRun \/ InitBetTypeRun
            \/ InitLiveRun \/ InitSelectorRun \/ InitSchedulerRun
Next == NextBankroll \/ NextDrawdown \/ NextStrategy \/ NextProbability
            \/ NextDecision \/ NextPortfolio \/ NextBetType
            \/ NextLive \/ NextSelector \/ NextScheduler
Spec == Init /\ [][Next]_vars

-----------------------------------------------------------------------------
(* Properties                                                              *)

Range(seq) == {seq[i] : i \in 1..Len(seq)}

\* a call of calculate_bet_size has just returned (or raised)
Sized == ret.op = "calculate_bet_size"
\* ... with arguments the Kelly formula is meant for
SizedValid ==
    /\ Sized
    /\ ret.expected_value > 1000 /\ ret.odds > 10 /\ ret.probability > 0

\* C1.  Bankroll conservation: after any sequence of record_bet calls,
\* current_bankroll = initial_bankroll + the sum of the recorded profits.
C1_BankrollConservation ==
    under_test = "BankrollManager" =>
        current_bankroll = initial_bankroll + SumSeq(Profits_of(bet_history))

\* C1 witness: a won bet and a lost bet have both been recorded.
C1_Witness ==
    /\ under_test = "BankrollManager"
    /\ \E i, j \in 1..Len(bet_history) :
          /\ bet_history[i].result = "win" /\ bet_history[i].profit > 0
          /\ bet_history[j].result = "lose" /\ bet_history[j].payout > 0

\* C7 as claimed: for valid inputs the stake returned by calculate_bet_size
\* never exceeds max_risk_per_race * current_bankroll.
C7_StakeWithinMaxRisk ==
    (SizedValid /\ ~ret.raised) =>
        ret.value * 100 <= max_risk_per_race * current_bankroll

\* C8.  Whatever the inputs and the ledger, calculate_bet_size returns an
\* integer that is a multiple of 100 and at least 100.
C8_StakeIsPositiveHundreds ==
    Sized => /\ ~ret.raised
             /\ ret.value % 100 = 0
             /\ ret.value >= 100

\* C8 witness: a valid call on a ledger whose bankroll has gone negative.
C8_Witness ==
    /\ SizedValid
    /\ current_bankroll < 0
    /\ ret.value = 100

\* C9.  With expected_value <= 1, odds <= 1 or probability <= 0,
\* calculate_bet_size returns exactly 100 and raises nothing.
C9_InvalidInputsGetMinimum ==
    (Sized /\ ( \/ ret.expected_value <= 1000
                \/ ret.odds <= 10
                \/ ret.probability <= 0 )) =>
        /\ ~ret.raised
        /\ ret.value = 100

\* C9 witness: odds = 1.0 (a zero Kelly denominator) with the other two
\* inputs valid.
C9_Witness ==
    /\ Sized
    /\ ret.odds = 10 /\ ret.expected_value > 1000 /\ ret.probability > 0
    /\ ~ret.raised /\ ret.value = 100

\* The stake for probability p at odds o, expected value p * o, on the
\* present ledger and with the confidence of the last call.
StakeAt(odds, p) ==
    calculate_bet_size(current_bankroll, max_risk_per_race,
                       odds * p, odds, p, ret.confidence)

\* the probabilities and odds the last call is compared with
MonoProbs == {5 * k : k \in 0..20}
MonoOdds == {10 + 2 * k : k \in 0..25}

\* C10.  With bankroll, confidence and max risk fixed and expected_value =
\* probability * odds, the stake is non-decreasing in the probability at
\* fixed odds and non-decreasing in the odds at fixed probability.
C10_StakeMonotone ==
    (Sized /\ ret.expected_value = ret.odds * ret.probability) =>
        /\ \A p \in MonoProbs :
              /\ p >= ret.probability =>
                    StakeAt(ret.odds, p).value >= ret.value
              /\ p <= ret.probability =>
                    StakeAt(ret.odds, p).value <= ret.value
        /\ \A o \in MonoOdds :
              /\ o >= ret.odds => StakeAt(o, ret.probability).value >= ret.value
              /\ o <= ret.odds => StakeAt(o, ret.probability).value <= ret.value

\* C10 witness: a call whose stake is strictly below the stake at a higher
\* probability, and strictly below the stake at higher odds.
C10_Witness ==
    /\ SizedValid
    /\ ret.expected_value = ret.odds * ret.probability
    /\ ret.value > 100
    /\ \E p \in MonoProbs :
          p > ret.probability /\ StakeAt(ret.odds, p).value > ret.value
    /\ \E o \in MonoOdds :
          o > ret.odds /\ StakeAt(o, ret.probability).value > ret.value

\* ---- the analyzers

BADone == under_test = "BettingAnalyzer" /\ ba_calls > 0
IVBDone == under_test = "BetTypeAnalyzer._identify_value_bets" /\ bta_calls > 0

\* the bet types BettingAnalyzer decides on
BATypes == {"tan", "fuku", "umaren"}

\* the selection a recommendation of type t names for the candidate key
SelectionOf(t, key) == IF t = "umaren" THEN key ELSE <<key>>

\* the candidates of table evs[t] exactly at, and above, the threshold of t
AtThresholdIn(evs, t) == {e \in Range(evs[t]) : QEq(e.v, Threshold(t))}
AboveThresholdIn(evs, t) == {e \in Range(evs[t]) : QGt(e.v, Threshold(t))}

\* the bet types value_bets / best_bets holds an entry for
TypesOf(bets) == {b.k : b \in Range(bets)}

\* C2 as claimed: two or more recommendations with stakes in hundreds that
\* sum to more than 20,000 leave _apply_portfolio_strategy with a sum of at
\* most 20,000 and every stake a multiple of 100.
C2_PortfolioCap ==
    ( /\ under_test = "BetTypeAnalyzer._apply_portfolio_strategy"
      /\ bta_calls > 0
      /\ Len(bta_input) >= 2
      /\ \A r \in Range(bta_input) : r.amount % 100 = 0
      /\ TotalAmount(bta_input) > 20000 ) =>
        /\ TotalAmount(bta_recommendations) <= 20000
        /\ \A r \in Range(bta_recommendations) : r.amount % 100 = 0

\* C3.  For every bet type a candidate whose expected value is exactly
\* breakeven * 1.1 is not selected, and a candidate above it is eligible
\* (its type gets a value bet and no no_bet is emitted); a lone tan
\* candidate of EV 1.10 (odds 2.0, probability 0.55) yields no_bet.
C3_ThresholdBoundary ==
    /\ BADone =>
          /\ \A t \in BATypes :
                /\ \A e \in AtThresholdIn(expected_values, t) :
                      \A r \in Range(recommendations) :
                         ~(r.bet_type = t /\ r.selection = SelectionOf(t, e.k))
                /\ AboveThresholdIn(expected_values, t) # {} =>
                      /\ t \in TypesOf(BestBets(expected_values))
                      /\ \A r \in Range(recommendations) : r.bet_type # "no_bet"
          /\ ( /\ ba_input.scores[1] = 55 /\ ba_input.scores[2] = 45
               /\ ba_input.tan_odds[1] = NumOdds(20)
               /\ ba_input.tan_odds[2].kind # "num"
               /\ \A h \in {1, 2} : ba_input.fuku_odds[h].kind # "range"
               /\ ba_input.umaren_odds.kind # "num" ) =>
                /\ DictGet(expected_values.tan, 1) = Q(55 * 20, 100 * 10)
                /\ \A r \in Range(recommendations) : r = NoBet
    /\ IVBDone =>
          \A t \in AllBetTypes :
             /\ \A e \in AtThresholdIn(bta_expected_values, t) :
                   \A b \in Range(ValueBets(bta_expected_values)) :
                      ~(b.k = t /\ b.v.key = e.k)
             /\ AboveThresholdIn(bta_expected_values, t) # {} =>
                   /\ t \in TypesOf(ValueBets(bta_expected_values))
                   /\ \A r \in Range(bta_recommendations) : r.bet_type # "no_bet"

\* C3 witness: analyze() has met a tan candidate whose expected value is
\* exactly 1.375 and answered no_bet.
C3_Witness ==
    /\ BADone
    /\ AtThresholdIn(expected_values, "tan") # {}
    /\ recommendations[1] = NoBet

\* C4.  The decision step emits no_bet, with its reason and threshold, if
\* and only if no candidate is above its threshold, and then it is the only
\* entry that analysis produces.
C4_NoBetIffNothingQualifies ==
    /\ BADone =>
          LET qualifies ==
                  \E t \in BATypes : AboveThresholdIn(expected_values, t) # {}
          IN /\ ~ba_raised
             /\ ~qualifies <=> (\E r \in Range(recommendations) : r.bet_type = "no_bet")
             /\ ~qualifies =>
                   /\ Len(recommendations) = ba_calls
                   /\ \A r \in Range(recommendations) :
                         /\ r.bet_type = "no_bet"
                         /\ r.threshold = MIN_EXPECTED_VALUE
                         /\ r.reason = NoBet.reason
    /\ IVBDone =>
          LET qualifies ==
                  \E t \in AllBetTypes : AboveThresholdIn(bta_expected_values, t) # {}
          IN /\ ~qualifies <=>
                   (\E r \in Range(bta_recommendations) : r.bet_type = "no_bet")
             /\ ~qualifies =>
                   /\ Len(bta_recommendations) = bta_calls
                   /\ \A r \in Range(bta_recommendations) : r = NoBet

\* C4 witness: analyze() has computed expected values for win and quinella
\* candidates, none above its threshold, and emitted no_bet.
C4_Witness ==
    /\ BADone
    /\ expected_values.tan # <<>> /\ expected_values.umaren # <<>>
    /\ recommendations = <<NoBet>>

\* C5.  When a candidate qualifies, each analysis emits a single
\* recommendation, and its expected value is at least that of every
\* qualifying candidate of every bet type.
C5_HighestEVIsRecommended ==
    BADone =>
        \A t \in BATypes : \A e \in AboveThresholdIn(expected_values, t) :
           /\ Len(recommendations) = ba_calls
           /\ \A r \in Range(recommendations) :
                 /\ r.bet_type \in BATypes
                 /\ QGe(r.expected_value, e.v)
                 /\ \E c \in Range(expected_values[r.bet_type]) :
                       /\ r.selection = SelectionOf(r.bet_type, c.k)
                       /\ r.expected_value = c.v

\* C5 witness: win, place and quinella candidates all qualify and the one
\* recommended is not a win bet.
C5_Witness ==
    /\ BADone
    /\ \A t \in BATypes : AboveThresholdIn(expected_values, t) # {}
    /\ recommendations[1].bet_type # "tan"

\* C6 as claimed: analyze_all_bet_types returns a recommendation for every
\* bet type with a selection whose probability * odds exceeds the type's
\* threshold, and no_bet only when there is no such selection.  (The
\* analyzer is given win probabilities and win odds: the type is tan.)
C6_OneRecommendationPerValueType ==
    (under_test = "BetTypeAnalyzer" /\ bta_calls > 0) =>
        LET value == \E h \in {1, 2} :
                        /\ bta_input.tan_odds[h].kind = "num"
                        /\ QGt(Q(bta_input.win[h] * bta_input.tan_odds[h].lo, 1000),
                               Threshold("tan"))
        IN /\ value => \E r \in Range(bta_recommendations) : r.bet_type = "tan"
           /\ (\E r \in Range(bta_recommendations) : r.bet_type = "no_bet") => ~value

-----------------------------------------------------------------------------
(* Properties of the ledger: drawdown protection, metrics, strategy        *)

\* adjust_for_drawdown_protection has just returned
Adjusted == ret.op = "adjust_for_drawdown_protection"
\* the ledger's drawdown, 1 - current_bankroll / initial_bankroll
LedgerDrawdown == Drawdown(initial_bankroll, current_bankroll)

MaxDrawdownGrows ==
    QGe(performance_metrics.max_drawdown', performance_metrics.max_drawdown)

\* C12 as claimed: max_drawdown is at least the drawdown of every bankroll
\* the ledger has held so far, and it never decreases.
C12_MaxDrawdownHighWater ==
    /\ [](under_test \in BankrollRuns =>
            \A i \in 1..Len(bet_history) :
               QGe(performance_metrics.max_drawdown,
                   Drawdown(initial_bankroll, bet_history[i].bankroll_after)))
    /\ [][MaxDrawdownGrows]_vars

\* C13 as claimed, for a history long enough for the strategy to be given:
\* when the ledger's drawdown exceeds 30%, recommend_bankroll_strategy
\* returns risk_adjustment "decrease" with recovery_mode true.
C13_DrawdownTriggersRecovery ==
    (/\ ret.op = "recommend_bankroll_strategy"
     /\ Len(bet_history) >= MIN_HISTORY
     /\ QGt(LedgerDrawdown, <<3, 10>>)) =>
        /\ ret.value.risk_adjustment = "decrease"
        /\ ret.value.recovery_mode

\* the methods that only read the ledger, as claimed
ReadOnlyMethods ==
    {"calculate_bet_size", "recommend_bankroll_strategy", "get_performance_report"}

\* one step of the frame as claimed
ReadersLeaveLedger ==
    ret'.op \in ReadOnlyMethods \cup {"adjust_for_drawdown_protection"} =>
        UNCHANGED <<current_bankroll, bet_history, performance_metrics>>

AdjustWritesDrawdownOnly ==
    /\ ret'.op \in ReadOnlyMethods =>
          UNCHANGED <<current_bankroll, bet_history, performance_metrics>>
    /\ ret'.op = "adjust_for_drawdown_protection" =>
          /\ UNCHANGED <<current_bankroll, bet_history>>
          /\ performance_metrics'.roi = performance_metrics.roi
          /\ performance_metrics'.hit_rate = performance_metrics.hit_rate
          /\ performance_metrics'.profit_factor = performance_metrics.profit_factor
          /\ performance_metrics'.drawdown =
                Drawdown(initial_bankroll, current_bankroll)

-----------------------------------------------------------------------------
(* Properties of the probability models                                    *)

Modelled == under_test = "ProbabilityModels"
\* the odds table the priors were computed from
OddsTable == TanOddsOf(pm_race_data)
Keys(d) == {d[i].k : i \in 1..Len(d)}
\* an entry with decimal odds above 0 ("inf" included: float() accepts it)
PositiveOdds(e) == e.v.kind = "inf" \/ (e.v.kind = "num" /\ e.v.lo > 0)
\* 1 / odds of such an entry
Inverse(e) == IF e.v.kind = "inf" THEN Zero ELSE <<10, e.v.lo>>
\* the sum of 1 / odds over the entries with odds above 0
RECURSIVE InverseSum(_)
InverseSum(table) ==
    IF table = <<>> THEN Zero
    ELSE IF PositiveOdds(Head(table))
         THEN QAdd(Inverse(Head(table)), InverseSum(Tail(table)))
         ELSE InverseSum(Tail(table))

\* C15.  For a non-empty table of positive decimal odds, every horse of the
\* table gets the prior (1 / odds) / (sum of all 1 / odds), and the priors
\* sum to 1.
C15_MarketPriorsNormalized ==
    (/\ Modelled
     /\ OddsTable # <<>>
     /\ \A i \in 1..Len(OddsTable) :
           OddsTable[i].v.kind = "num" /\ OddsTable[i].v.lo > 0) =>
        /\ Constructed
        /\ Keys(market_priors) = Keys(OddsTable)
        /\ \A i \in 1..Len(OddsTable) :
              QEq(QMul(DictGet(market_priors, OddsTable[i].k), InverseSum(OddsTable)),
                  Inverse(OddsTable[i]))
        /\ QSum(market_priors) = One

\* C15 witness: three horses at odds 2.0, 4.0 and 4.0 have the priors 1/2,
\* 1/4 and 1/4.
C15_Witness ==
    /\ Modelled
    /\ Len(OddsTable) = 3
    /\ \A i \in 1..Len(OddsTable) : OddsTable[i].v.kind = "num" /\ OddsTable[i].v.lo > 0
    /\ market_priors = <<[k |-> 1, v |-> <<1, 2>>], [k |-> 2, v |-> <<1, 4>>],
                         [k |-> 3, v |-> <<1, 4>>]>>

\* C16 as claimed: when no horse has usable win odds (no table, an empty
\* table, or only entries that are no numbers), every one of the N horses of
\* the race has the prior 1/N, and the priors sum to 1.
C16_UniformFallback ==
    (/\ Modelled
     /\ \A i \in 1..Len(OddsTable) : OddsTable[i].v.kind = "text") =>
        LET N == Len(pm_race_data.horses)
        IN /\ Constructed
           /\ Len(market_priors) = N
           /\ \A i \in 1..Len(market_priors) : market_priors[i].v = <<1, N>>
           /\ QSum(market_priors) = One

\* C17 as claimed: computing the priors never raises; a horse whose odds are
\* zero, negative, no number or missing gets no prior and adds nothing to
\* the sum, and the horses with odds above 0 are normalized among
\* themselves.
C17_BadOddsAreSkipped ==
    (/\ Modelled
     /\ \E i \in 1..Len(OddsTable) :
           OddsTable[i].v.kind = "num" /\ OddsTable[i].v.lo > 0) =>
        /\ Constructed
        /\ Keys(market_priors) =
              {OddsTable[i].k : i \in {j \in 1..Len(OddsTable) : PositiveOdds(OddsTable[j])}}
        /\ \A i \in 1..Len(OddsTable) :
              (PositiveOdds(OddsTable[i]) /\ DictHas(market_priors, OddsTable[i].k)) =>
                  QEq(QMul(DictGet(market_priors, OddsTable[i].k), InverseSum(OddsTable)),
                      Inverse(OddsTable[i]))

\* bayesian_win_probability has just returned
Estimated == Modelled /\ pm_ret.op = "bayesian_win_probability"

\* C18 as claimed: when the factor analysis is empty for all horses, the
\* posterior returned is the market prior of every horse, however the prior
\* was produced.
C18_EmptyAnalysisKeepsPrior ==
    (/\ Estimated
     /\ \A i \in 1..Len(pm_factor_analysis) : pm_factor_analysis[i].v = EmptyAnalysis) =>
        /\ Keys(pm_ret.value) = Keys(market_priors)
        /\ \A k \in Keys(market_priors) :
              QEq(DictGet(pm_ret.value, k), DictGet(market_priors, k))

\* the horses that have a prior and no entry in the factor analysis
Unanalysed == Keys(market_priors) \ Keys(pm_factor_analysis)

\* C19 as claimed: a horse with a market prior and no entry in the factor
\* analysis has its prior as its posterior, whatever the other horses' scores.
\* (Stated for priors that sum to 1, as market priors are meant to.)
C19_UnanalysedHorseKeepsPrior ==
    (Estimated /\ QSum(market_priors) = One) =>
        \A k \in Unanalysed :
           QEq(DictGet(pm_ret.value, k), DictGet(market_priors, k))

\* the sum of prior * likelihood ratio over all horses
UnnormalizedTotal ==
    QSum([i \in 1..Len(market_priors) |->
             [k |-> market_priors[i].k,
              v |-> IF DictHas(pm_factor_analysis, market_priors[i].k)
                    THEN QMul(market_priors[i].v,
                              LikelihoodRatio(DictGet(pm_factor_analysis,
                                                      market_priors[i].k),
                                              pm_race_data, market_priors[i].k))
                    ELSE market_priors[i].v]])

\* C19 as amended: a horse with a market prior and no entry in the factor
\* analysis has likelihood ratio 1: its posterior is its prior divided by
\* the sum of prior * likelihood ratio over all horses (the prior itself
\* when that sum is not positive).
C19_UnanalysedHorseKeepsRatioOne ==
    Estimated =>
        \A k \in Unanalysed :
           IF QGt(UnnormalizedTotal, Zero)
           THEN QEq(QMul(DictGet(pm_ret.value, k), UnnormalizedTotal),
                    DictGet(market_priors, k))
           ELSE QEq(DictGet(pm_ret.value, k), DictGet(market_priors, k))

\* C19 witness: a horse without analysis next to a horse whose analysis
\* raises its share; the posterior of the first is below its prior.
C19_Witness ==
    /\ Estimated
    /\ \E k \in Unanalysed :
          QGt(DictGet(market_priors, k), DictGet(pm_ret.value, k))
    /\ \E i \in 1..Len(pm_factor_analysis) : pm_factor_analysis[i].v = StrongAnalysis

\* C20 as claimed: the Monte Carlo simulation completes without error for
\* every win-probability distribution of the Bayesian step, a horse with
\* win probability 0 or 1 included.
C20_SimulationNeverRaises ==
    (Modelled /\ pm_ret.op \in {"estimate_all_probabilities", "_simulate_race"}) =>
        pm_ret.raised = "none"


\* ---- the simulation's tallies

\* the sum of a dict of counts, and the count of one key (0 when absent)
RECURSIVE TallySum(_)
TallySum(counts) == IF counts = <<>> THEN 0 ELSE Head(counts).v + TallySum(Tail(counts))
TallyOf(counts, key) == IF DictHas(counts, key) THEN DictGet(counts, key) ELSE 0

\* estimate_all_probabilities() returned: the simulation ran to its end
Simulated ==
    /\ Modelled
    /\ pm_ret.op = "estimate_all_probabilities"
    /\ pm_ret.raised = "none"

\* what C21 says of the tallies of a completed simulation
TalliesAreConsistent ==
    LET r == simulation_results
        N == r.num_simulations
        P == pm_probabilities
    IN /\ TallySum(r.exacta_counts) = N
       /\ TallySum(r.quinella_counts) = N
       /\ TallySum(r.trifecta_counts) = N
       /\ TallySum(r.trio_counts) = N
       /\ \A a, b \in Keys(P.win) :
             a < b => TallyOf(r.quinella_counts, <<a, b>>) =
                         TallyOf(r.exacta_counts, <<a, b>>)
                         + TallyOf(r.exacta_counts, <<b, a>>)
       /\ \A a, b, c \in Keys(P.win) :
             (a < b /\ b < c) =>
                TallyOf(r.trio_counts, <<a, b, c>>) =
                   TallyOf(r.trifecta_counts, <<a, b, c>>)
                   + TallyOf(r.trifecta_counts, <<a, c, b>>)
                   + TallyOf(r.trifecta_counts, <<b, a, c>>)
                   + TallyOf(r.trifecta_counts, <<b, c, a>>)
                   + TallyOf(r.trifecta_counts, <<c, a, b>>)
                   + TallyOf(r.trifecta_counts, <<c, b, a>>)
       /\ Keys(r.quinella_counts) \subseteq {<<a, b>> : a, b \in Keys(P.win)}
       /\ \A q \in Keys(r.quinella_counts) : q[1] < q[2]
       /\ \A t \in Keys(r.trio_counts) : t[1] < t[2] /\ t[2] < t[3]
       /\ QSum(P.exacta) = One
       /\ QSum(P.quinella) = One
       /\ QSum(P.trifecta) = One
       /\ QSum(P.trio) = One

-----------------------------------------------------------------------------
(* Properties of the live updates                                          *)

\* a step of update_race_data, and what its check found (pm_ret.value)
UpdateStep == under_test = LiveRun /\ pm_updates' = pm_updates + 1
Updated == under_test = LiveRun /\ pm_ret.op = "update_race_data"

\* C22 as claimed: when the win odds of some horse, stored under
\* live_odds_data.tan_odds, differ by 15% or more of their previous value
\* from the previous snapshot, the check returns true and the market priors
\* are recomputed from the new odds.
OddsMoveTriggers ==
    (/\ UpdateStep
     /\ pm_race_data.tan_odds # <<>>
     /\ OddsMoved(pm_race_data.tan_odds, pm_race_data'.tan_odds)) =>
        /\ pm_ret'.value = TRUE
        /\ pm_ret'.raised = "none" =>
              market_priors' = CalculateMarketPriors(pm_race_data').value
C22_OddsMoveTriggersRecalculation == [][OddsMoveTriggers]_vars

\* C23 as claimed: with nothing else changed and less than 30 minutes since
\* the last full recalculation, a moisture change below 2 points in the same
\* category does not trigger a recalculation, and a change of 2 points or
\* more, or a change of category, does.
OnlyTrackChanged ==
    /\ UpdateStep
    /\ pm_race_data' = [pm_race_data EXCEPT !.track_condition = pm_race_data'.track_condition]
    /\ clock' - last_full_recalculation_time < RECALCULATION_INTERVAL
MoistureThreshold ==
    OnlyTrackChanged =>
        LET prev == pm_race_data.track_condition
            curr == pm_race_data'.track_condition
        IN pm_ret'.value =
              (\/ prev.condition # curr.condition
               \/ Abs(curr.moisture - prev.moisture) >= MOISTURE_THRESHOLD)
C23_MoistureThreshold == [][MoistureThreshold]_vars

\* C25 as claimed: after every update that returned, no horse's current win
\* odds differ by 15% or more from the odds in force at the last full
\* recalculation.  Stated for odds stored under the key the check reads
\* ("tan"), so that a step of 15% between two snapshots is seen.
C25_NoLagBehindMarket ==
    (Updated /\ pm_ret.raised = "none" /\ pm_race_data.tan # <<>>) =>
        ~OddsMoved(recalculated_odds, WinOddsOf(pm_race_data))

\* C26 as claimed: an update with data identical to the previous snapshot,
\* less than 30 minutes after the last full recalculation, performs no
\* recalculation, whatever the snapshot holds.
IdenticalSnapshotIsQuiet ==
    (/\ UpdateStep
     /\ pm_race_data' = pm_race_data
     /\ clock' - last_full_recalculation_time < RECALCULATION_INTERVAL) =>
        /\ pm_ret'.value = FALSE
        /\ UNCHANGED <<market_priors, pm_probabilities, simulation_results,
                       cached_probabilities>>
C26_IdenticalSnapshotIsQuiet == [][IdenticalSnapshotIsQuiet]_vars

\* C27 as claimed: a set returned by get_cached_probabilities was computed
\* after the last update that triggered a recalculation, and an update that
\* triggers none leaves the cached set as it is.
CachedSetIsCurrent ==
    (/\ under_test = LiveRun
     /\ pm_ret.op = "get_cached_probabilities"
     /\ pm_ret.raised = "none") =>
        /\ cached_after >= triggered_at
        /\ pm_ret.value = cached_probabilities.probabilities
QuietUpdateKeepsCache ==
    (UpdateStep /\ pm_ret'.value = FALSE) =>
        cached_probabilities' = cached_probabilities
C27_CacheCoherence == []CachedSetIsCurrent /\ [][QuietUpdateKeepsCache]_vars


-----------------------------------------------------------------------------
(* Properties of the race selector                                         *)

\* C24 as claimed: get_recommended_races(min_score, limit) returns the first
\* `limit` entries of the list of all scored races whose score is at least
\* min_score, in order of descending score: as many entries as there are
\* such races (up to the limit), each of them one of these races, no race
\* twice, no entry scored above an earlier one, and no such race left out
\* that scored above a returned one.
C24_RecommendedAreTheBestScored ==
    (under_test = SelectorRun /\ rs_ret.op = "get_recommended_races") =>
        LET value == rs_ret.value
            qualifying == {i \in 1..Len(race_scores) :
                              QGe(race_scores[i].v, rs_ret.min_score)}
            returned == 1..Len(value)
        IN /\ Len(value) = Min2(rs_ret.limit, Cardinality(qualifying))
           /\ \A i \in returned : \E j \in qualifying : race_scores[j] = value[i]
           /\ \A i, j \in returned :
                 i < j => QGe(value[i].v, value[j].v) /\ value[i].k # value[j].k
           /\ \A j \in qualifying :
                 (\A i \in returned : value[i] # race_scores[j]) =>
                     \A i \in returned : QGe(value[i].v, race_scores[j].v)


-----------------------------------------------------------------------------
(* Properties across calls                                                 *)

\* the report get_performance_report would give in the current state
CurrentReport ==
    PerformanceReport(initial_bankroll, current_bankroll,
                      performance_metrics, bet_history)
\* the sum of the profits of the report's bet types
RECURSIVE BreakdownProfit(_, _)
BreakdownProfit(breakdown, types) ==
    IF types = {} THEN 0
    ELSE LET t == CHOOSE x \in types : TRUE
         IN breakdown[t].profit + BreakdownProfit(breakdown, types \ {t})

\* C28 as claimed: after any sequence of record_bet calls, roi times the sum
\* of the stakes equals current_bankroll - initial_bankroll, and the profits
\* of the bet types of the performance report add up to its profit_loss.
C28_MetricsMatchBankroll ==
    (under_test = SizingRun /\ bet_history # <<>>) =>
        LET report == CurrentReport
            total_stakes == SumSeq(Amounts_of(bet_history))
        IN /\ QEq(QMul(report.roi, Q(total_stakes, 1)),
                  Q(current_bankroll - initial_bankroll, 1))
           /\ BreakdownProfit(report.bet_type_breakdown,
                              DOMAIN report.bet_type_breakdown)
                 = report.profit_loss


\* C29 as claimed: every call of analyze() that returns, a repeated one
\* included, returns a list of exactly one entry: a tan, fuku or umaren
\* recommendation of 100, 200 or 300, or a no_bet entry.
C29_OneEntryPerCall ==
    (BADone /\ ~ba_raised) =>
        /\ Len(recommendations) = 1
        /\ \/ recommendations[1].bet_type = "no_bet"
           \/ /\ recommendations[1].bet_type \in BATypes
              /\ recommendations[1].amount \in {100, 200, 300}


-----------------------------------------------------------------------------
(* Properties of the scheduler                                             *)

\* C30 as claimed: under any interleaving of start() and stop() with the
\* scheduler threads, at most one loop is executing scheduled jobs at a
\* time, and a loop that was asked to stop does not run jobs again.
C30_OneLoopRunsJobs ==
    under_test = SchedulerRun =>
        /\ Cardinality({i \in 1..Len(loops) : loops[i] = "run_pending"}) <= 1
        /\ resumed = {}

=============================================================================
